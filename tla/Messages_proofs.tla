-------------------------- MODULE Messages_proofs ---------------------------
(***************************************************************************)
(* Theorems about what travels in a message of the dApp, for every number, *)
(* every length of a buffer and every size of a byte: what the loops of    *)
(* zcrypto/src/utils.js compute (bigint2buffLe and bigint2buffBe write the *)
(* lowest bytes of a number, and reading them gives it back modulo 256^n,  *)
(* although the Number in between is signed); that the contract and every  *)
(* wallet cut out of the bytes of a message what the sender put into them  *)
(* (Wire); that the owner of a note, and only a note that is his, comes    *)
(* out of its encryption (Encryption).                                     *)
(***************************************************************************)
EXTENDS Wire, Encryption, BasicTheorems

-----------------------------------------------------------------------------
\* Powers of a byte and Numbers of 32 bits.

\* Power is what its recursion equation says.
LEMMA PowerEquation == IsPower(Power, Byte)
BY ByteAssumption, PowerExists DEF IsPower, Power

LEMMA ByteType == Byte \in Nat \ {0, 1}
BY ByteAssumption

LEMMA PowerStep ==
    Power[0] = 1 /\ \A n \in Nat : Power[n + 1] = Byte * Power[n]
BY PowerEquation, ByteType, PowerLaws

LEMMA PowerType == \A n \in Nat : Power[n] \in Nat \ {0}
BY PowerEquation, ByteType, PowerLaws

\* Four bytes make a limb.
LEMMA LimbBytes ==
    /\ Power[1] = Byte /\ Power[2] = Byte * Byte /\ Power[3] = Byte * Power[2]
    /\ Limb = Byte * Power[3] /\ Limb \in Nat \ {0}
<1>1. Power[0 + 1] = Byte * Power[0] /\ Power[1 + 1] = Byte * Power[1]
      /\ Power[2 + 1] = Byte * Power[2] /\ Power[3 + 1] = Byte * Power[3]
  BY PowerStep
<1>2. Power[4] \in Nat \ {0}
  BY PowerType
<1>. QED BY <1>1, <1>2, PowerStep, ByteType DEF Limb

-----------------------------------------------------------------------------
\* Bytes to numbers.

LEMMA Int32Type ==
    /\ \A v \in Int : toInt32(v) \in Int
    /\ \A v \in Int : v % Byte \in 0 .. Byte - 1
<1>1. Byte \in Nat \ {0}
  BY ByteType
<1>2. ASSUME NEW v \in Int PROVE v % Byte \in 0 .. Byte - 1 /\ v % Limb \in Int
  <2>1. v % Byte \in 0 .. Byte - 1
    BY <1>1, Division
  <2>2. v % Limb \in 0 .. Limb - 1
    BY LimbBytes, Division
  <2>. QED BY <2>1, <2>2, LimbBytes
<1>. QED BY <1>2, LimbBytes DEF toInt32

\* The two fields that a round of the reading loop sets.
LEMMA SetTwo ==
    ASSUME NEW s \in [res : Int, t : Int, ti : Nat], NEW u, NEW v
    PROVE  [s EXCEPT !.t = u, !.ti = v] = [res |-> s.res, t |-> u, ti |-> v]
<1>. DEFINE r == [s EXCEPT !.t = u]
<1>1. r = [res |-> s.res, t |-> u, ti |-> s.ti]
  OBVIOUS
<1>2. [s EXCEPT !.t = u, !.ti = v] = [r EXCEPT !.ti = v]
  BY Zenon
<1>3. ASSUME NEW q, q = [res |-> s.res, t |-> u, ti |-> s.ti]
      PROVE  [q EXCEPT !.ti = v] = [res |-> s.res, t |-> u, ti |-> v]
  BY <1>3
<1>. HIDE DEF r
<1>. QED BY <1>1, <1>2, <1>3

readStart == [res |-> 0, t |-> 0, ti |-> 0]

\* The states of the loop of buff2bigintBe.
LEMMA ReadTrace ==
    ASSUME NEW n \in Nat, NEW b, DOMAIN b = 1 .. n, \A x \in 1 .. n : b[x] \in 0 .. Byte - 1
    PROVE  \E g : /\ \A i \in 0 .. n : g[i] \in [res : Int, t : Int, ti : Nat]
                  /\ g[0] = readStart
                  /\ \A i \in 1 .. n : g[i] = readByte(g[i - 1], b[i])
                  /\ buff2bigintBe(b) = g[n].res * Power[g[n].ti] + g[n].t
<1>. DEFINE S == [res : Int, t : Int, ti : Nat]
            E == 0 .. Byte - 1
            F == [p \in S \X E |-> readByte(p[1], p[2])]
<1>1. ASSUME NEW s \in S, NEW y \in E PROVE readByte(s, y) \in S
  <2>1. shiftLeft(s.t) \in Int /\ Power[s.ti + 1] \in Int /\ y \in Int
    <3>1. Byte \in Int /\ s.t \in Int /\ s.ti + 1 \in Nat /\ y \in Int
      BY ByteType
    <3>2. s.t * Byte \in Int
      BY <3>1
    <3>3. Power[s.ti + 1] \in Int
      BY <3>1, PowerType
    <3>. QED BY <3>1, <3>2, <3>3, Int32Type DEF shiftLeft
  <2>. DEFINE t == shiftLeft(s.t) + y
              u == s.res * Power[s.ti + 1] + t
  <2>2. t \in Int /\ u \in Int /\ s.ti + 1 \in Nat
    <3>1. s.res \in Int /\ s.ti + 1 \in Nat
      OBVIOUS
    <3>. HIDE DEF S
    <3>. QED BY <2>1, <3>1
  <2>3. readByte(s, y) = IF groupFull(s.ti + 1) THEN [res |-> u, t |-> 0, ti |-> 0]
                         ELSE [s EXCEPT !.t = t, !.ti = s.ti + 1]
    BY DEF readByte
  <2>. HIDE DEF t, u
  <2>4. [s EXCEPT !.t = t, !.ti = s.ti + 1] = [res |-> s.res, t |-> t, ti |-> s.ti + 1]
    BY SetTwo
  <2>5. s.res \in Int
    OBVIOUS
  <2>. QED BY <2>2, <2>3, <2>4, <2>5 DEF groupFull
<1>2. F \in [S \X E -> S] /\ readStart \in S
  BY <1>1 DEF readStart
<1>. DEFINE Eq(h) == h = [s \in SUBSET (1 .. n) |-> IF s = {} THEN readStart
                                                   ELSE readByte(h[s \ {Max(s)}], b[Max(s)])]
<1>3. \E h : Eq(h)
  <2>1. PICK h : IsFold(h, n, S, readStart, F, b)
    <3>. HIDE DEF S, F
    <3>. QED BY <1>2, FoldExists
  <2>2. ASSUME NEW s \in SUBSET (1 .. n), s # {}
        PROVE  F[<<h[s \ {Max(s)}], b[Max(s)]>>] = readByte(h[s \ {Max(s)}], b[Max(s)])
    <3>1. Max(s) \in s
      BY <2>2, MaxIsElement
    <3>2. h[s \ {Max(s)}] \in S /\ b[Max(s)] \in E
      BY <2>1, <3>1 DEF IsFold
    <3>. QED BY <3>2
  <2>3. h = [s \in SUBSET (1 .. n) |-> h[s]]
    BY <2>1 DEF IsFold
  <2>. HIDE DEF F, S
  <2>4. \A s \in SUBSET (1 .. n) : h[s] = IF s = {} THEN readStart ELSE readByte(h[s \ {Max(s)}], b[Max(s)])
    BY <2>1, <2>2 DEF IsFold
  <2>. QED BY <2>3, <2>4
<1>4. PICK h : Eq(h) /\ FoldLeft(readByte, readStart, b) = h[1 .. n]
  BY <1>3 DEF FoldLeft, MapThenFoldSet
<1>5. h[{}] = readStart
  BY <1>4
<1>6. ASSUME NEW i \in 1 .. n PROVE h[1 .. i] = readByte(h[1 .. i - 1], b[i])
  <2>1. Max(1 .. i) = i /\ (1 .. i) \ {i} = 1 .. i - 1 /\ 1 .. i # {}
    <3>1. i \in Nat \ {0}
      OBVIOUS
    <3>. QED BY <3>1, MaxOfRange
  <2>2. 1 .. i \in SUBSET (1 .. n)
    OBVIOUS
  <2>. QED BY <1>4, <2>1, <2>2
<1>. DEFINE g == [i \in 0 .. n |-> h[1 .. i]]
<1>7. g[0] = readStart /\ \A i \in 1 .. n : g[i] = readByte(g[i - 1], b[i])
  <2>1. 1 .. 0 = {}
    OBVIOUS
  <2>. QED BY <1>5, <1>6, <2>1
<1>. HIDE DEF g
<1>8. \A i \in 0 .. n : g[i] \in S
  <2>. DEFINE H == {i \in Nat : i \in 0 .. n => g[i] \in S}
  <2>1. 0 \in H
    BY <1>2, <1>7
  <2>2. ASSUME NEW i \in H PROVE i + 1 \in H
    <3>1. i + 1 \in 0 .. n => i + 1 \in 1 .. n /\ (i + 1) - 1 = i /\ b[i + 1] \in E /\ g[i] \in S
      OBVIOUS
    <3>2. i + 1 \in 0 .. n => g[i + 1] = readByte(g[i], b[i + 1])
      BY <1>7, <3>1
    <3>3. i + 1 \in 0 .. n => g[i + 1] \in S
      <4>. HIDE DEF S, E, H
      <4>. QED BY <1>1, <3>1, <3>2
    <3>. QED BY <3>3
  <2>3. H = Nat
    <3>1. H \in SUBSET Nat
      OBVIOUS
    <3>. HIDE DEF H
    <3>. QED BY <2>1, <2>2, <3>1, Induction
  <2>. QED BY <2>3
<1>9. buff2bigintBe(b) = g[n].res * Power[g[n].ti] + g[n].t
  <2>1. g[n] = FoldLeft(readByte, readStart, b)
    <3>1. n \in 0 .. n
      OBVIOUS
    <3>. HIDE DEF Eq
    <3>. QED BY <1>4, <3>1 DEF g
  <2>. QED BY <2>1 DEF buff2bigintBe, readStart
<1>. QED BY <1>7, <1>8, <1>9

\* The k-th byte of x, and its n lowest bytes.
byteOf(x, k) == (x \div Power[k]) % Byte
lowest(x, n) == [i \in 1 .. n |-> byteOf(x, n - i)]

\* 3 bytes shifted to the left are not taken for a negative number.
LEMMA ShiftLeft ==
    ASSUME NEW ti \in 0 .. 2, NEW t \in 0 .. Power[ti] - 1
    PROVE  /\ shiftLeft(t) = t * Byte
           /\ \A y \in 0 .. Byte - 1 : t * Byte + y \in 0 .. Power[ti + 1] - 1
<1>1. Byte \in Nat \ {0, 1} /\ Power[ti] \in Nat \ {0} /\ Power[3] \in Nat \ {0}
  BY ByteType, PowerType
<1>2. Power[ti + 1] = Byte * Power[ti] /\ Power[ti + 1] <= Power[3] /\ Power[ti + 1] \in Nat
  <2>1. Power[ti + 1] = Byte * Power[ti]
    BY PowerStep
  <2>2. ti = 0 \/ ti = 1 \/ ti = 2
    OBVIOUS
  <2>3. Power[1] <= Power[2] /\ Power[2] <= Power[3]
    <3>1. 1 * Byte <= Byte * Byte /\ 1 * Power[2] <= Byte * Power[2]
      BY <1>1, Times, PowerType
    <3>. QED BY <3>1, <1>1, LimbBytes, PowerType
  <2>4. Power[1] \in Nat /\ Power[2] \in Nat
    BY PowerType
  <2>. QED BY <1>1, <2>1, <2>2, <2>3, <2>4
<1>3. t * Byte + Byte <= Power[ti + 1]
  <2>1. (t + 1) * Byte <= Power[ti] * Byte
    BY <1>1, Times
  <2>. QED BY <1>1, <1>2, <2>1
<1>4. t * Byte \in Nat
  BY <1>1
<1>5. 2 * (t * Byte) < Limb
  <2>1. 2 * Power[3] <= Byte * Power[3]
    BY <1>1, Times
  <2>2. t * Byte < Power[3]
    BY <1>1, <1>2, <1>3, <1>4
  <2>. QED BY <1>1, <1>4, <2>1, <2>2, LimbBytes
<1>6. (t * Byte) % Limb = t * Byte
  <2>. DEFINE x == t * Byte
  <2>1. x \in 0 .. Limb - 1 /\ Limb \in Nat \ {0}
    BY <1>4, <1>5, LimbBytes
  <2>2. (Limb * 0 + x) % Limb = x
    BY <2>1, Unique
  <2>3. Limb * 0 + x = x
    BY <2>1
  <2>. QED BY <2>2, <2>3
<1>7. shiftLeft(t) = t * Byte
  BY <1>5, <1>6 DEF shiftLeft, toInt32
<1>. QED BY <1>1, <1>2, <1>3, <1>4, <1>7

\* One more byte in front of those that a number's lowest i bytes make.
LEMMA OneMoreByte ==
    ASSUME NEW x \in Nat, NEW k \in Nat, NEW i \in Nat
    PROVE  (x \div Power[k]) % Power[i + 1]
              = Byte * ((x \div Power[k + 1]) % Power[i]) + byteOf(x, k)
<1>1. Byte \in Nat \ {0} /\ Power[k] \in Nat \ {0} /\ Power[i] \in Nat \ {0}
  BY ByteType, PowerType
<1>2. Power[k + 1] = Byte * Power[k] /\ Power[i + 1] = Byte * Power[i]
  BY PowerStep
<1>. DEFINE y == x \div Power[k]
<1>3. y \in Int
  BY <1>1, Division
<1>4. y \div Byte = x \div Power[k + 1]
  <2>1. (x \div Power[k]) \div Byte = x \div (Power[k] * Byte)
    BY <1>1, DivDiv
  <2>2. Power[k] * Byte = Power[k + 1]
    BY <1>1, <1>2
  <2>. QED BY <2>1, <2>2
<1>5. y % (Byte * Power[i]) = Byte * ((y \div Byte) % Power[i]) + (y % Byte)
  <2>. HIDE DEF y
  <2>. QED BY <1>1, <1>3, ModSplit
<1>. QED BY <1>2, <1>4, <1>5 DEF byteOf

\* buff2bigintBe gives back a number modulo 256^n.
LEMMA ReadBack ==
    ASSUME NEW x \in Nat, NEW n \in Nat
    PROVE  buff2bigintBe(lowest(x, n)) = x % Power[n]
<1>. DEFINE b == lowest(x, n)
<1>1. DOMAIN b = 1 .. n /\ \A i \in 1 .. n : b[i] = byteOf(x, n - i)
  BY DEF lowest
<1>2. \A k \in Nat : byteOf(x, k) \in 0 .. Byte - 1
  <2>. SUFFICES ASSUME NEW k \in Nat PROVE byteOf(x, k) \in 0 .. Byte - 1
    OBVIOUS
  <2>1. Byte \in Nat \ {0} /\ Power[k] \in Nat \ {0}
    BY ByteType, PowerType
  <2>2. x \div Power[k] \in Int
    BY <2>1, Division
  <2>. QED BY <2>1, <2>2, Division DEF byteOf
<1>3. \A i \in 1 .. n : b[i] \in 0 .. Byte - 1
  <2>1. \A i \in 1 .. n : n - i \in Nat
    OBVIOUS
  <2>. QED BY <1>1, <1>2, <2>1
<1>. HIDE DEF b
<1>4. PICK g : /\ \A i \in 0 .. n : g[i] \in [res : Int, t : Int, ti : Nat]
               /\ g[0] = readStart
               /\ \A i \in 1 .. n : g[i] = readByte(g[i - 1], b[i])
               /\ buff2bigintBe(b) = g[n].res * Power[g[n].ti] + g[n].t
  BY <1>1, <1>3, ReadTrace
<1>. DEFINE Inv(i) == /\ g[i].ti \in 0 .. 2
                      /\ g[i].t \in 0 .. Power[g[i].ti] - 1
                      /\ g[i].res * Power[g[i].ti] + g[i].t = (x \div Power[n - i]) % Power[i]
            H == {i \in Nat : i \in 0 .. n => Inv(i)}
<1>5. 0 \in H
  <2>1. g[0].ti = 0 /\ g[0].t = 0 /\ g[0].res = 0
    BY <1>4 DEF readStart
  <2>2. Power[0] = 1
    BY PowerStep
  <2>3. (x \div Power[n]) % 1 = 0
    <3>1. Power[n] \in Nat \ {0}
      BY PowerType
    <3>2. x \div Power[n] \in Int
      BY <3>1, Division
    <3>3. (x \div Power[n]) % 1 \in 0 .. 1 - 1
      BY <3>2, Division
    <3>. QED BY <3>3
  <2>4. n - 0 = n
    OBVIOUS
  <2>. QED BY <2>1, <2>2, <2>3, <2>4
<1>6. ASSUME NEW i \in Nat, i + 1 \in 0 .. n, Inv(i) PROVE Inv(i + 1)
  <2>. DEFINE s == g[i]
              y == b[i + 1]
              t == s.t * Byte + y
              p == Power[s.ti + 1]
  <2>1. i \in 0 .. n /\ i + 1 \in 1 .. n /\ (i + 1) - 1 = i
    BY <1>6
  <2>2. /\ s \in [res : Int, t : Int, ti : Nat]
        /\ s.ti \in 0 .. 2 /\ s.t \in 0 .. Power[s.ti] - 1
        /\ g[i + 1] = readByte(s, y) /\ y \in 0 .. Byte - 1
        /\ s.res * Power[s.ti] + s.t = (x \div Power[n - i]) % Power[i]
    BY <1>3, <1>4, <1>6, <2>1
  <2>. HIDE DEF s
  <2>3. shiftLeft(s.t) = s.t * Byte /\ t \in 0 .. p - 1
    BY <2>2, ShiftLeft
  <2>4. p = Byte * Power[s.ti] /\ p \in Nat \ {0} /\ Byte \in Nat /\ Power[s.ti] \in Nat
    BY <2>2, PowerStep, PowerType, ByteType
  <2>5. s.res * p + t = (x \div Power[n - (i + 1)]) % Power[i + 1]
    <3>1. (x \div Power[n - (i + 1)]) % Power[i + 1]
            = Byte * ((x \div Power[n - i]) % Power[i]) + y
      <4>1. n - (i + 1) \in Nat /\ (n - (i + 1)) + 1 = n - i
        BY <2>1
      <4>2. y = byteOf(x, n - (i + 1))
        BY <1>1, <2>1
      <4>. QED BY <4>1, <4>2, OneMoreByte
    <3>2. Byte * (s.res * Power[s.ti] + s.t) = s.res * (Byte * Power[s.ti]) + s.t * Byte
      <4>1. s.res \in Int /\ s.t \in Int
        BY <2>2
      <4>. DEFINE u == Power[s.ti]
                  v == s.res
                  w == s.t
      <4>2. u \in Int /\ v \in Int /\ w \in Int /\ Byte \in Int
        BY <2>4, <4>1
      <4>. HIDE DEF u, v, w
      <4>3. Byte * (v * u + w) = v * (Byte * u) + w * Byte
        BY <4>2
      <4>. QED BY <4>3 DEF u, v, w
    <3>3. s.res * p \in Int /\ s.t * Byte \in Int /\ y \in Int
      BY <2>2, <2>4
    <3>. QED BY <2>2, <2>4, <3>1, <3>2, <3>3
  <2>6. readByte(s, y) = IF s.ti + 1 = 3 THEN [res |-> s.res * p + t, t |-> 0, ti |-> 0]
                         ELSE [res |-> s.res, t |-> t, ti |-> s.ti + 1]
    <3>1. [s EXCEPT !.t = t, !.ti = s.ti + 1] = [res |-> s.res, t |-> t, ti |-> s.ti + 1]
      BY <2>2, SetTwo
    <3>. QED BY <2>3, <3>1 DEF readByte, groupFull
  <2>7. Power[0] = 1
    BY PowerStep
  <2>. HIDE DEF t, p, y
  <2>8. CASE s.ti + 1 = 3
    <3>1. g[i + 1].ti = 0 /\ g[i + 1].t = 0 /\ g[i + 1].res = s.res * p + t
      BY <2>2, <2>6, <2>8
    <3>2. s.res * p + t \in Int
      BY <2>2, <2>3, <2>4
    <3>3. (s.res * p + t) * 1 + 0 = s.res * p + t
      BY <3>2
    <3>. QED BY <2>5, <2>7, <3>1, <3>3
  <2>9. CASE s.ti + 1 # 3
    <3>1. g[i + 1].ti = s.ti + 1 /\ g[i + 1].t = t /\ g[i + 1].res = s.res
      BY <2>2, <2>6, <2>9
    <3>2. s.ti + 1 \in 0 .. 2
      BY <2>2, <2>9
    <3>. QED BY <2>3, <2>5, <3>1, <3>2 DEF p
  <2>. QED BY <2>8, <2>9
<1>7. Inv(n)
  <2>1. \A i \in H : i + 1 \in H
    <3>. SUFFICES ASSUME NEW i \in H, i + 1 \in 0 .. n PROVE Inv(i + 1)
      OBVIOUS
    <3>1. i \in Nat /\ (i \in 0 .. n => Inv(i)) /\ i \in 0 .. n
      OBVIOUS
    <3>. HIDE DEF Inv, H
    <3>. QED BY <1>6, <3>1
  <2>2. H = Nat
    <3>1. H \in SUBSET Nat
      OBVIOUS
    <3>. HIDE DEF H
    <3>. QED BY <1>5, <2>1, <3>1, Induction
  <2>3. n \in H /\ n \in 0 .. n
    BY <2>2
  <2>. HIDE DEF Inv
  <2>. QED BY <2>3
<1>8. (x \div Power[n - n]) % Power[n] = x % Power[n]
  <2>1. Power[n - n] = 1
    BY PowerStep
  <2>2. x \div 1 = x
    OBVIOUS
  <2>. QED BY <2>1, <2>2
<1>. QED BY <1>4, <1>7, <1>8 DEF b

-----------------------------------------------------------------------------
\* Numbers to bytes.

Limbs == [x : Nat, t : Int, ti : Int, b : Seq(0 .. Byte - 1), break : BOOLEAN]

writeStart(x) == [x |-> x, t |-> 0, ti |-> 4, b |-> <<>>, break |-> FALSE]

writeRound(s) == IF s.break THEN [s EXCEPT !.b = Append(@, 0)] ELSE writeByte(s)

\* The limb that a round of the writing loop takes its byte from.
current(s) == IF s.ti = 4 THEN [x |-> s.x \div Limb, t |-> s.x % Limb, ti |-> 0]
              ELSE [x |-> s.x, t |-> s.t, ti |-> s.ti]

\* A round, field by field.
LEMMA WriteRound ==
    ASSUME NEW s \in Limbs
    PROVE  /\ writeRound(s) \in Limbs
           /\ s.break => writeRound(s) = [x |-> s.x, t |-> s.t, ti |-> s.ti,
                                          b |-> Append(s.b, 0), break |-> TRUE]
           /\ ~ s.break =>
                LET l == current(s)
                    t == toInt32(l.t) \div Byte
                IN  writeRound(s) = [x |-> l.x, t |-> t, ti |-> l.ti + 1,
                                     b |-> Append(s.b, l.t % Byte), break |-> (l.x = 0 /\ t = 0)]
<1>1. Byte \in Nat \ {0, 1} /\ Limb \in Nat \ {0} /\ Power[1] = Byte
  BY ByteType, LimbBytes
<1>2. /\ s.x \in Nat /\ s.t \in Int /\ s.ti \in Int /\ s.b \in Seq(0 .. Byte - 1) /\ s.break \in BOOLEAN
      /\ s = [x |-> s.x, t |-> s.t, ti |-> s.ti, b |-> s.b, break |-> s.break]
  BY DEF Limbs
<1>3. CASE s.break
  <2>1. [s EXCEPT !.b = Append(@, 0)]
          = [x |-> s.x, t |-> s.t, ti |-> s.ti, b |-> Append(s.b, 0), break |-> TRUE]
    <3>1. ASSUME NEW w
          PROVE  [s EXCEPT !.b = w] = [x |-> s.x, t |-> s.t, ti |-> s.ti, b |-> w, break |-> s.break]
      BY DEF Limbs
    <3>2. s.break = TRUE
      BY <1>2, <1>3
    <3>. QED BY <3>1, <3>2
  <2>2. 0 \in 0 .. Byte - 1
    BY <1>1
  <2>3. Append(s.b, 0) \in Seq(0 .. Byte - 1)
    BY <1>2, <2>2, AppendProperties
  <2>. QED BY <1>2, <1>3, <2>1, <2>3 DEF writeRound, Limbs
<1>4. CASE ~ s.break
  <2>. DEFINE l == current(s)
              t == toInt32(l.t) \div Byte
  <2>1. l.x \in Nat /\ l.t \in Int /\ l.ti \in Int
    <3>1. s.x \div Limb \in Nat /\ s.x % Limb \in 0 .. Limb - 1
      <4>1. s.x \in Int /\ s.x \in Nat
        BY <1>2
      <4>2. s.x \div Limb \in Nat
        BY <1>1, <4>1, DivNat
      <4>3. s.x % Limb \in 0 .. Limb - 1
        BY <1>1, <4>1, Division
      <4>. QED BY <4>2, <4>3
    <3>. QED BY <1>1, <1>2, <3>1 DEF current
  <2>2. t \in Int /\ l.t % Byte \in 0 .. Byte - 1
    <3>1. toInt32(l.t) \in Int
      BY <2>1, Int32Type
    <3>. QED BY <1>1, <2>1, <3>1, Int32Type, Division
  <2>3. writeRound(s) = [x |-> l.x, t |-> t, ti |-> l.ti + 1,
                         b |-> Append(s.b, l.t % Byte), break |-> (l.x = 0 /\ t = 0)]
    <3>. DEFINE k == IF s.ti = 4 THEN [s EXCEPT !.t = s.x % Limb, !.ti = 0, !.x = s.x \div Limb] ELSE s
    <3>1. k.x = l.x /\ k.t = l.t /\ k.ti = l.ti /\ k.b = s.b
      BY <1>2 DEF current, Limbs
    <3>2. writeByte(s) = [x |-> k.x, t |-> shiftRight(k.t, 1), ti |-> k.ti + 1, b |-> Append(k.b, lowByte(k.t)),
                          break |-> nothingLeft(k.x, shiftRight(k.t, 1))]
      BY DEF writeByte
    <3>. HIDE DEF k, l
    <3>3. shiftRight(k.t, 1) = t /\ lowByte(k.t) = l.t % Byte
      BY <1>1, <3>1 DEF shiftRight, lowByte
    <3>. QED BY <1>4, <3>1, <3>2, <3>3 DEF nothingLeft, writeRound
  <2>4. Append(s.b, l.t % Byte) \in Seq(0 .. Byte - 1)
    BY <1>2, <2>2, AppendProperties
  <2>. HIDE DEF l, t
  <2>5. writeRound(s) \in Limbs
    BY <2>1, <2>2, <2>3, <2>4 DEF Limbs
  <2>. QED BY <1>4, <2>3, <2>5 DEF l, t
<1>. QED BY <1>3, <1>4

\* The states of the loop of bigint2buffLe.
LEMMA WriteTrace ==
    ASSUME NEW n \in Nat, NEW x \in Nat
    PROVE  \E g : /\ \A i \in 0 .. n : g[i] \in Limbs
                  /\ g[0] = writeStart(x)
                  /\ \A i \in 1 .. n : g[i] = writeRound(g[i - 1])
                  /\ bigint2buffLe(x, n) = g[n].b
<1>. DEFINE F == [p \in Limbs \X Nat |-> writeRound(p[1])]
            v == [i \in 1 .. n |-> i]
<1>1. F \in [Limbs \X Nat -> Limbs] /\ writeStart(x) \in Limbs
  <2>1. \A s \in Limbs : writeRound(s) \in Limbs
    BY WriteRound
  <2>2. <<>> \in Seq(0 .. Byte - 1)
    OBVIOUS
  <2>. QED BY <2>1, <2>2 DEF writeStart, Limbs
<1>. DEFINE Eq(h) == h = [s \in SUBSET (1 .. n) |-> IF s = {} THEN writeStart(x)
                                                   ELSE writeRound(h[s \ {Max(s)}])]
<1>2. \E h : Eq(h)
  <2>0. \A i \in 1 .. n : v[i] \in Nat
    OBVIOUS
  <2>1. PICK h : IsFold(h, n, Limbs, writeStart(x), F, v)
    <3>. HIDE DEF F, v
    <3>. QED BY <1>1, <2>0, FoldExists
  <2>2. ASSUME NEW s \in SUBSET (1 .. n), s # {}
        PROVE  F[<<h[s \ {Max(s)}], v[Max(s)]>>] = writeRound(h[s \ {Max(s)}])
    <3>1. Max(s) \in s
      BY <2>2, MaxIsElement
    <3>2. h[s \ {Max(s)}] \in Limbs /\ v[Max(s)] \in Nat
      <4>1. Max(s) \in 1 .. n /\ s \ {Max(s)} \in SUBSET (1 .. n)
        BY <3>1
      <4>2. v[Max(s)] \in Nat
        BY <2>0, <4>1
      <4>. HIDE DEF v, F
      <4>. QED BY <2>1, <4>1, <4>2 DEF IsFold
    <3>. HIDE DEF v
    <3>. QED BY <3>2
  <2>3. h = [s \in SUBSET (1 .. n) |-> h[s]]
    BY <2>1 DEF IsFold
  <2>. HIDE DEF F, v
  <2>4. \A s \in SUBSET (1 .. n) : h[s] = IF s = {} THEN writeStart(x) ELSE writeRound(h[s \ {Max(s)}])
    BY <2>1, <2>2 DEF IsFold
  <2>. QED BY <2>3, <2>4
<1>3. \E h : Eq(h) /\ bigint2buffLe(x, n) = h[1 .. n].b
  BY <1>2 DEF bigint2buffLe, FoldLeft, MapThenFoldSet, writeStart, writeRound
<1>4. PICK h : Eq(h) /\ bigint2buffLe(x, n) = h[1 .. n].b
  BY <1>3
<1>5. h[{}] = writeStart(x)
  BY <1>4
<1>6. ASSUME NEW i \in 1 .. n PROVE h[1 .. i] = writeRound(h[1 .. i - 1])
  <2>1. Max(1 .. i) = i /\ (1 .. i) \ {i} = 1 .. i - 1 /\ 1 .. i # {}
    <3>1. i \in Nat \ {0}
      OBVIOUS
    <3>. QED BY <3>1, MaxOfRange
  <2>2. 1 .. i \in SUBSET (1 .. n)
    OBVIOUS
  <2>. QED BY <1>4, <2>1, <2>2
<1>. DEFINE g == [i \in 0 .. n |-> h[1 .. i]]
<1>7. g[0] = writeStart(x) /\ \A i \in 1 .. n : g[i] = writeRound(g[i - 1])
  <2>1. 1 .. 0 = {}
    OBVIOUS
  <2>. QED BY <1>5, <1>6, <2>1
<1>8. bigint2buffLe(x, n) = g[n].b
  <2>1. n \in 0 .. n
    OBVIOUS
  <2>. HIDE DEF Eq
  <2>. QED BY <1>4, <2>1
<1>. HIDE DEF g
<1>9. \A i \in 0 .. n : g[i] \in Limbs
  <2>. DEFINE H == {i \in Nat : i \in 0 .. n => g[i] \in Limbs}
  <2>1. 0 \in H
    BY <1>1, <1>7
  <2>2. ASSUME NEW i \in H PROVE i + 1 \in H
    <3>1. i + 1 \in 0 .. n => i + 1 \in 1 .. n /\ (i + 1) - 1 = i /\ g[i] \in Limbs
      OBVIOUS
    <3>2. i + 1 \in 0 .. n => g[i + 1] \in Limbs
      BY <1>7, <3>1, WriteRound
    <3>. QED BY <3>2
  <2>3. H = Nat
    <3>1. H \in SUBSET Nat
      OBVIOUS
    <3>. HIDE DEF H
    <3>. QED BY <2>1, <2>2, <3>1, Induction
  <2>. QED BY <2>3
<1>. QED BY <1>7, <1>8, <1>9

LEMMA LimbSplit ==
    ASSUME NEW k \in 1 .. 4
    PROVE  Limb = Power[k] * Power[4 - k]
<1>1. Byte \in Nat
  BY ByteType
<1>2. Power[0] = 1
  BY PowerStep
<1>3. Power[3] = Byte * (Byte * Byte) /\ Power[2] = Byte * Byte /\ Power[1] = Byte
      /\ Power[4] = Byte * (Byte * (Byte * Byte))
  BY LimbBytes DEF Limb
<1>4. k = 1 \/ k = 2 \/ k = 3 \/ k = 4
  OBVIOUS
<1>5. /\ Byte * (Byte * (Byte * Byte)) = (Byte * Byte) * (Byte * Byte)
      /\ Byte * (Byte * (Byte * Byte)) = (Byte * (Byte * Byte)) * Byte
      /\ Byte * (Byte * (Byte * Byte)) = (Byte * (Byte * (Byte * Byte))) * 1
  BY <1>1
<1>6. 4 - 1 = 3 /\ 4 - 2 = 2 /\ 4 - 3 = 1 /\ 4 - 4 = 0
  OBVIOUS
<1>. QED BY <1>2, <1>3, <1>4, <1>5, <1>6 DEF Limb

\* A Number with a sign has the same bytes.
LEMMA SignKeepsBytes ==
    ASSUME NEW v \in Int, NEW k \in 1 .. 4
    PROVE  toInt32(v) % Power[k] = v % Power[k]
<1>. DEFINE a == Power[k]
            b == Power[4 - k]
            u == v % (a * b)
<1>1. a \in Nat \ {0} /\ b \in Nat \ {0} /\ Limb = a * b
  BY PowerType, LimbSplit
<1>. HIDE DEF a, b
<1>2. u % a = v % a /\ u \in Int
  <2>1. a * b \in Nat \ {0}
    BY <1>1
  <2>2. u \in 0 .. a * b - 1
    <3>. DEFINE m == a * b
    <3>. HIDE DEF m
    <3>1. v % m \in 0 .. m - 1
      BY <2>1, Division DEF m
    <3>. QED BY <3>1 DEF m
  <2>3. u % a = v % a
    BY <1>1, ModSplit
  <2>. QED BY <2>1, <2>2, <2>3
<1>. HIDE DEF u
<1>3. (u - a * b) % a = u % a
  <2>1. u \div a \in Int /\ u % a \in 0 .. a - 1 /\ u = a * (u \div a) + (u % a)
    BY <1>1, <1>2, Division
  <2>. DEFINE p == u \div a
              r == u % a
  <2>2. p \in Int /\ r \in 0 .. a - 1 /\ u = a * p + r
    BY <2>1
  <2>. HIDE DEF p, r
  <2>3. u - a * b = a * (p - b) + r
    BY <1>1, <2>2
  <2>4. p - b \in Int
    BY <1>1, <2>2
  <2>5. (a * (p - b) + r) % a = r
    BY <1>1, <2>2, <2>4, Unique
  <2>. QED BY <2>3, <2>5 DEF r
<1>4. toInt32(v) = u \/ toInt32(v) = u - a * b
  BY <1>1 DEF toInt32, u
<1>. QED BY <1>2, <1>3, <1>4 DEF a

\* The byte a round takes off what is left, and what it leaves.
LEMMA TakeByte ==
    ASSUME NEW x \in Nat, NEW t \in Int, NEW m \in 0 .. 3
    PROVE  LET q == Power[m + 1] * x + (t % Power[m + 1])
           IN  /\ q % Byte = t % Byte
               /\ q \div Byte = Power[m] * x + ((toInt32(t) \div Byte) % Power[m])
<1>. DEFINE p == Power[m]
            w == toInt32(t)
            c == (w \div Byte) % p
            d == w % Byte
<1>1. Byte \in Nat \ {0} /\ p \in Nat \ {0} /\ Power[m + 1] = Byte * p
  BY ByteType, PowerType, PowerStep
<1>2. w \in Int
  BY Int32Type
<1>. HIDE DEF w, p
<1>3. w % (Byte * p) = Byte * c + d /\ (w % (Byte * p)) % Byte = d
  BY <1>1, <1>2, ModSplit
<1>4. w % (Byte * p) = t % (Byte * p)
  <2>1. m + 1 \in 1 .. 4
    OBVIOUS
  <2>2. toInt32(t) % Power[m + 1] = t % Power[m + 1]
    BY <2>1, SignKeepsBytes
  <2>. QED BY <1>1, <2>2 DEF w
<1>5. (t % (Byte * p)) % Byte = t % Byte
  BY <1>1, ModSplit
<1>6. c \in Int /\ d \in 0 .. Byte - 1
  <2>1. w \div Byte \in Int /\ w % Byte \in 0 .. Byte - 1
    BY <1>1, <1>2, Division
  <2>2. (w \div Byte) % p \in 0 .. p - 1
    BY <1>1, <2>1, Division
  <2>. QED BY <1>1, <2>1, <2>2
<1>. HIDE DEF c, d
<1>. DEFINE q == Power[m + 1] * x + (t % Power[m + 1])
<1>7. q = Byte * (p * x + c) + d
  <2>1. q = (Byte * p) * x + (Byte * c + d)
    BY <1>1, <1>3, <1>4
  <2>. QED BY <1>1, <1>6, <2>1
<1>8. p * x + c \in Int
  BY <1>1, <1>6
<1>. HIDE DEF q
<1>9. q % Byte = d /\ q \div Byte = p * x + c
  BY <1>1, <1>6, <1>7, <1>8, Unique
<1>. QED BY <1>3, <1>4, <1>5, <1>9 DEF q, c, p, w

\* The limb a round works on holds what was left before it.
LEMMA CurrentLimb ==
    ASSUME NEW s \in Limbs, s.ti \in 1 .. 4
    PROVE  LET l == current(s)
               m == 3 - l.ti
           IN  /\ l.x \in Nat /\ l.t \in Int /\ m \in 0 .. 3
               /\ Power[4 - s.ti] * s.x + (s.t % Power[4 - s.ti])
                     = Power[m + 1] * l.x + (l.t % Power[m + 1])
<1>1. s.x \in Nat /\ s.x \in Int /\ s.t \in Int
  BY DEF Limbs
<1>2. Limb \in Nat \ {0} /\ Power[4] = Limb /\ Power[0] = 1
  BY LimbBytes, PowerStep DEF Limb
<1>3. CASE s.ti = 4
  <2>. DEFINE p == s.x \div Limb
              r == s.x % Limb
  <2>1. p \in Nat
    BY <1>1, <1>2, DivNat
  <2>2. r \in 0 .. Limb - 1 /\ s.x = Limb * p + r
    BY <1>1, <1>2, Division
  <2>3. current(s) = [x |-> p, t |-> r, ti |-> 0]
    BY <1>3 DEF current
  <2>. HIDE DEF p, r
  <2>4. r % Limb = r
    <3>1. (Limb * 0 + r) % Limb = r
      BY <1>2, <2>2, Unique
    <3>2. Limb * 0 + r = r
      BY <1>2, <2>2
    <3>. QED BY <3>1, <3>2
  <2>5. s.t % 1 = 0
    <3>1. s.t % 1 \in 0 .. 1 - 1
      BY <1>1, Division
    <3>. QED BY <3>1
  <2>6. Power[4 - s.ti] * s.x + (s.t % Power[4 - s.ti]) = s.x
    <3>1. 4 - s.ti = 0
      BY <1>3
    <3>2. 1 * s.x + 0 = s.x
      BY <1>1
    <3>. QED BY <1>2, <2>5, <3>1, <3>2
  <2>7. current(s).x = p /\ current(s).t = r /\ current(s).ti = 0
    BY <2>3
  <2>8. (3 - 0) + 1 = 4 /\ 3 - 0 \in 0 .. 3 /\ r \in Int
    BY <1>2, <2>2
  <2>. QED BY <1>2, <2>1, <2>2, <2>4, <2>6, <2>7, <2>8
<1>4. CASE s.ti # 4
  <2>1. current(s).x = s.x /\ current(s).t = s.t /\ current(s).ti = s.ti
    BY <1>4 DEF current
  <2>2. 3 - s.ti \in 0 .. 3 /\ (3 - s.ti) + 1 = 4 - s.ti
    BY <1>4
  <2>. QED BY <1>1, <2>1, <2>2
<1>. QED BY <1>3, <1>4

\* bigint2buffLe writes the lowest bytes of a number.
LEMMA WriteBack ==
    ASSUME NEW x \in Nat, NEW n \in Nat
    PROVE  bigint2buffLe(x, n) = [i \in 1 .. n |-> byteOf(x, i - 1)]
<1>1. PICK g : /\ \A i \in 0 .. n : g[i] \in Limbs
               /\ g[0] = writeStart(x)
               /\ \A i \in 1 .. n : g[i] = writeRound(g[i - 1])
               /\ bigint2buffLe(x, n) = g[n].b
  BY WriteTrace
<1>. DEFINE quot(i) == x \div Power[i]
            left(s) == Power[4 - s.ti] * s.x + (s.t % Power[4 - s.ti])
            Inv(i) == /\ g[i].ti \in 1 .. 4
                      /\ Len(g[i].b) = i
                      /\ \A j \in 1 .. i : g[i].b[j] = byteOf(x, j - 1)
                      /\ g[i].break => quot(i) = 0
                      /\ ~ g[i].break => quot(i) = left(g[i])
            H == {i \in Nat : i \in 0 .. n => Inv(i)}
<1>2. Byte \in Nat \ {0}
  BY ByteType
<1>3. \A i \in Nat : quot(i) \in Int /\ quot(i + 1) = quot(i) \div Byte /\ byteOf(x, i) = quot(i) % Byte
  <2>. SUFFICES ASSUME NEW i \in Nat
                PROVE  quot(i) \in Int /\ quot(i + 1) = quot(i) \div Byte /\ byteOf(x, i) = quot(i) % Byte
    OBVIOUS
  <2>1. Power[i] \in Nat \ {0} /\ Power[i + 1] = Byte * Power[i]
    BY PowerType, PowerStep
  <2>2. (x \div Power[i]) \div Byte = x \div (Power[i] * Byte)
    BY <1>2, <2>1, DivDiv
  <2>3. Power[i] * Byte = Power[i + 1]
    BY <1>2, <2>1
  <2>4. x \div Power[i] \in Int
    <3>1. x \in Int /\ Power[i] \in Nat \ {0}
      BY <2>1
    <3>. QED BY <3>1, Division
  <2>. QED BY <2>2, <2>3, <2>4 DEF byteOf
<1>4. 0 \in H
  <2>1. g[0].ti = 4 /\ g[0].x = x /\ g[0].t = 0 /\ g[0].b = <<>> /\ g[0].break = FALSE
    BY <1>1 DEF writeStart
  <2>2. Power[0] = 1 /\ x \div 1 = x /\ 0 % 1 = 0 /\ 1 * x + 0 = x /\ 4 - 4 = 0
    BY PowerStep
  <2>. QED BY <2>1, <2>2
<1>5. ASSUME NEW i \in Nat, i + 1 \in 0 .. n, Inv(i) PROVE Inv(i + 1)
  <2>. DEFINE s == g[i]
              r == g[i + 1]
  <2>1. i \in 0 .. n /\ i + 1 \in 1 .. n /\ (i + 1) - 1 = i
    BY <1>5
  <2>2. s \in Limbs /\ r = writeRound(s) /\ r \in Limbs
    BY <1>1, <2>1
  <2>3. /\ s.ti \in 1 .. 4 /\ Len(s.b) = i /\ \A j \in 1 .. i : s.b[j] = byteOf(x, j - 1)
        /\ s.break => quot(i) = 0
        /\ ~ s.break => quot(i) = left(s)
    BY <1>5
  <2>4. quot(i) \in Int /\ quot(i + 1) = quot(i) \div Byte /\ byteOf(x, i) = quot(i) % Byte
    BY <1>3
  <2>5. s.b \in Seq(0 .. Byte - 1) /\ s.break \in BOOLEAN
    BY <2>2 DEF Limbs
  <2>. HIDE DEF s, r, quot, left
  <2>6. ASSUME NEW y \in 0 .. Byte - 1, r.b = Append(s.b, y), y = byteOf(x, i)
        PROVE  Len(r.b) = i + 1 /\ \A j \in 1 .. i + 1 : r.b[j] = byteOf(x, j - 1)
    <3>1. /\ Len(Append(s.b, y)) = Len(s.b) + 1
          /\ \A j \in 1 .. Len(s.b) : Append(s.b, y)[j] = s.b[j]
          /\ Append(s.b, y)[Len(s.b) + 1] = y
      BY <2>5, AppendProperties
    <3>. SUFFICES ASSUME NEW j \in 1 .. i + 1 PROVE r.b[j] = byteOf(x, j - 1)
      BY <2>3, <2>6, <3>1
    <3>2. CASE j = i + 1
      BY <2>1, <2>3, <2>6, <3>1, <3>2
    <3>3. CASE j # i + 1
      <4>1. j \in 1 .. i
        BY <3>3
      <4>. QED BY <2>3, <2>6, <3>1, <4>1
    <3>. QED BY <3>2, <3>3
  <2>7. CASE s.break
    <3>1. r = [x |-> s.x, t |-> s.t, ti |-> s.ti, b |-> Append(s.b, 0), break |-> TRUE]
      BY <2>2, <2>7, WriteRound
    <3>2. 0 % Byte = 0 /\ 0 \div Byte = 0
      BY <1>2
    <3>3. byteOf(x, i) = 0 /\ quot(i + 1) = 0 /\ 0 \in 0 .. Byte - 1
      BY <1>2, <2>3, <2>4, <2>7, <3>2
    <3>4. Len(r.b) = i + 1 /\ \A j \in 1 .. i + 1 : r.b[j] = byteOf(x, j - 1)
      BY <2>6, <3>1, <3>3
    <3>5. r.ti \in 1 .. 4 /\ r.break
      BY <2>3, <3>1
    <3>. QED BY <3>3, <3>4, <3>5 DEF r
  <2>8. CASE ~ s.break
    <3>. DEFINE l == current(s)
                t == toInt32(l.t) \div Byte
                m == 3 - l.ti
    <3>1. r = [x |-> l.x, t |-> t, ti |-> l.ti + 1, b |-> Append(s.b, l.t % Byte), break |-> (l.x = 0 /\ t = 0)]
      BY <2>2, <2>8, WriteRound
    <3>2. /\ l.x \in Nat /\ l.t \in Int /\ m \in 0 .. 3
          /\ left(s) = Power[m + 1] * l.x + (l.t % Power[m + 1])
      BY <2>2, <2>3, CurrentLimb DEF left
    <3>. HIDE DEF l
    <3>3. /\ quot(i) % Byte = l.t % Byte
          /\ quot(i) \div Byte = Power[m] * l.x + (t % Power[m])
      <4>. HIDE DEF m
      <4>1. /\ left(s) % Byte = l.t % Byte
            /\ left(s) \div Byte = Power[m] * l.x + (t % Power[m])
        BY <3>2, TakeByte
      <4>. QED BY <2>3, <2>8, <4>1
    <3>4. l.t % Byte \in 0 .. Byte - 1
      BY <1>2, <3>2, Division
    <3>5. r.x = l.x /\ r.t = t /\ r.ti = l.ti + 1 /\ r.b = Append(s.b, l.t % Byte) /\ r.break = (l.x = 0 /\ t = 0)
      BY <3>1
    <3>6. Len(r.b) = i + 1 /\ \A j \in 1 .. i + 1 : r.b[j] = byteOf(x, j - 1)
      BY <2>4, <2>6, <3>3, <3>4, <3>5
    <3>7. r.ti \in Int
      BY <2>2 DEF Limbs
    <3>8. r.ti \in 1 .. 4 /\ 4 - r.ti = m
      <4>1. l.ti \in Int
        <5>1. s.ti \in Int
          BY <2>3
        <5>. QED BY <5>1 DEF l, current
      <4>. QED BY <3>2, <3>5, <4>1
    <3>9. quot(i + 1) = left(r)
      BY <2>4, <3>3, <3>5, <3>8 DEF left
    <3>10. r.break => quot(i + 1) = 0
      <4>. SUFFICES ASSUME r.break PROVE quot(i + 1) = 0
        OBVIOUS
      <4>1. r.x = 0 /\ r.t = 0
        BY <3>5
      <4>2. Power[m] \in Nat \ {0}
        BY <3>2, PowerType
      <4>3. 0 % Power[m] = 0 /\ Power[m] * 0 = 0
        BY <4>2
      <4>. QED BY <3>8, <3>9, <4>1, <4>3 DEF left
    <3>. QED BY <3>6, <3>8, <3>9, <3>10 DEF r
  <2>. QED BY <2>5, <2>7, <2>8
<1>6. Inv(n)
  <2>1. ASSUME NEW i \in H PROVE i + 1 \in H
    <3>. HIDE DEF Inv
    <3>1. i \in Nat /\ (i \in 0 .. n => Inv(i))
      OBVIOUS
    <3>2. ASSUME i + 1 \in 0 .. n PROVE Inv(i + 1)
      <4>1. i \in 0 .. n
        BY <3>1, <3>2
      <4>. QED BY <1>5, <3>1, <3>2, <4>1
    <3>. QED BY <3>1, <3>2
  <2>2. H = Nat
    <3>1. H \in SUBSET Nat
      OBVIOUS
    <3>. HIDE DEF H
    <3>. QED BY <1>4, <2>1, <3>1, Induction
  <2>3. n \in H /\ n \in 0 .. n
    BY <2>2
  <2>. HIDE DEF Inv
  <2>. QED BY <2>3
<1>7. g[n].b \in Seq(0 .. Byte - 1)
  <2>1. g[n] \in Limbs
    <3>1. n \in 0 .. n
      OBVIOUS
    <3>. QED BY <1>1, <3>1
  <2>. QED BY <2>1 DEF Limbs
<1>8. g[n].b = [i \in 1 .. n |-> g[n].b[i]]
  <2>. DEFINE b == g[n].b
  <2>1. b \in Seq(0 .. Byte - 1) /\ Len(b) = n
    BY <1>6, <1>7
  <2>. HIDE DEF b
  <2>2. DOMAIN b = 1 .. n /\ b = [i \in DOMAIN b |-> b[i]]
    BY <2>1
  <2>3. b = [i \in 1 .. n |-> b[i]]
    BY <2>2
  <2>. QED BY <2>3 DEF b
<1>. QED BY <1>1, <1>6, <1>8

\* bigint2buffBe has them in the other order.
LEMMA WriteBackBe ==
    ASSUME NEW x \in Nat, NEW n \in Nat
    PROVE  /\ bigint2buffBe(x, n) = lowest(x, n)
           /\ Reverse(bigint2buffLe(x, n)) = lowest(x, n)
<1>1. bigint2buffLe(x, n) = [i \in 1 .. n |-> byteOf(x, i - 1)]
  BY WriteBack
<1>. DEFINE b == [i \in 1 .. n |-> byteOf(x, i - 1)]
<1>2. Len(b) = n
  OBVIOUS
<1>3. Reverse(b) = [i \in 1 .. n |-> b[(n - i) + 1]]
  <2>. HIDE DEF b
  <2>. QED BY <1>2 DEF Reverse
<1>4. \A i \in 1 .. n : b[(n - i) + 1] = byteOf(x, n - i)
  <2>. SUFFICES ASSUME NEW i \in 1 .. n PROVE b[(n - i) + 1] = byteOf(x, n - i)
    OBVIOUS
  <2>1. (n - i) + 1 \in 1 .. n /\ ((n - i) + 1) - 1 = n - i
    OBVIOUS
  <2>. QED BY <2>1
<1>5. Reverse(b) = lowest(x, n)
  <2>. HIDE DEF b
  <2>. QED BY <1>3, <1>4 DEF lowest
<1>. QED BY <1>1, <1>5 DEF bigint2buffBe

\* In both byte orders a buffer of n bytes gives back a number modulo 256^n.
LEMMA RoundTrip ==
    ASSUME NEW x \in Nat, NEW n \in Nat
    PROVE  /\ buff2bigintBe(bigint2buffBe(x, n)) = x % Power[n]
           /\ buff2bigintLe(bigint2buffLe(x, n)) = x % Power[n]
BY WriteBackBe, ReadBack DEF buff2bigintLe

-----------------------------------------------------------------------------
LEMMA PowerSum ==
    ASSUME NEW a \in Nat
    PROVE  \A b \in Nat : Power[a + b] = Power[a] * Power[b]
BY PowerEquation, ByteType, PowerLaws

LEMMA PowerGrows ==
    ASSUME NEW a \in Nat, NEW b \in Nat, a <= b
    PROVE  Power[a] <= Power[b]
<1>1. b - a \in Nat /\ a + (b - a) = b
  OBVIOUS
<1>2. Power[b] = Power[a] * Power[b - a]
  BY <1>1, PowerSum
<1>3. Power[a] \in Nat /\ Power[b - a] \in Nat \ {0}
  BY <1>1, PowerType
<1>4. 1 * Power[a] <= Power[b - a] * Power[a]
  BY <1>3, Times
<1>5. 1 * Power[a] = Power[a] /\ Power[b - a] * Power[a] = Power[a] * Power[b - a]
  BY <1>3
<1>. QED BY <1>2, <1>4, <1>5

-----------------------------------------------------------------------------
Bytes == 0 .. Byte - 1

LEMMA LowestType ==
    ASSUME NEW x \in Nat, NEW n \in Nat
    PROVE  /\ lowest(x, n) \in Seq(Bytes) /\ Len(lowest(x, n)) = n
           /\ \A i \in 1 .. n : lowest(x, n)[i] = byteOf(x, n - i)
<1>1. \A i \in 1 .. n : byteOf(x, n - i) \in Bytes
  <2>. TAKE i \in 1 .. n
  <2>1. n - i \in Nat
    OBVIOUS
  <2>2. x \div Power[n - i] \in Int
    <3>1. x \in Int /\ Power[n - i] \in Nat \ {0}
      BY <2>1, PowerType
    <3>. QED BY <3>1, Division
  <2>. QED BY <2>2, ByteType, Division DEF byteOf, Bytes
<1>. HIDE DEF byteOf, Bytes
<1>. QED BY <1>1 DEF lowest

\* The bytes of the words of x, one word behind the other.
Text(x, w) == FlattenSeq([k \in DOMAIN x |-> bigint2buffBe(x[k], w)])

LEMMA TextOf ==
    ASSUME NEW x \in Seq(Nat), NEW w \in Nat \ {0}
    PROVE  /\ Text(x, w) \in Seq(Bytes) /\ Len(Text(x, w)) = w * Len(x)
           /\ \A k \in 1 .. Len(x) : \A i \in 1 .. w :
                 Text(x, w)[w * (k - 1) + i] = lowest(x[k], w)[i]
<1>. DEFINE s == [k \in DOMAIN x |-> bigint2buffBe(x[k], w)]
            n == Len(x)
            text == Text(x, w)
<1>1. n \in Nat /\ DOMAIN x = 1 .. n /\ \A k \in 1 .. n : x[k] \in Nat
  OBVIOUS
<1>2. \A k \in 1 .. n : s[k] = lowest(x[k], w) /\ s[k] \in Seq(Bytes) /\ Len(s[k]) = w
  <2>. TAKE k \in 1 .. n
  <2>1. x[k] \in Nat /\ w \in Nat /\ s[k] = bigint2buffBe(x[k], w)
    BY <1>1
  <2>. HIDE DEF s, n
  <2>2. s[k] = lowest(x[k], w)
    BY <2>1, WriteBackBe
  <2>3. lowest(x[k], w) \in Seq(Bytes) /\ Len(lowest(x[k], w)) = w
    BY <2>1, LowestType
  <2>. QED BY <2>2, <2>3
<1>3. s \in Seq(Seq(Bytes)) /\ Len(s) = n
  <2>1. s = [k \in 1 .. n |-> s[k]]
    BY <1>1
  <2>. HIDE DEF s, n
  <2>2. s \in [1 .. n -> Seq(Bytes)]
    BY <1>2, <2>1
  <2>. QED BY <1>1, <2>2
<1>4. text = FlattenSeq(s)
  BY DEF Text
<1>5. CASE n = 0
  <2>1. text = s
    BY <1>3, <1>4, <1>5 DEF FlattenSeq
  <2>2. s = <<>>
    BY <1>3, <1>5, EmptySeq
  <2>3. text \in Seq(Bytes) /\ Len(text) = 0 /\ w * 0 = 0
    BY <2>1, <2>2
  <2>. QED BY <2>3, <1>5
<1>6. CASE n # 0
  <2>. HIDE DEF s, n
  <2>1. n \in Nat \ {0}
    BY <1>1, <1>6
  <2>2. FlattenSeq(s) = Joined(s, n, w)
    BY <1>2, <1>3, <2>1, FlattenWords
  <2>. DEFINE m == w * n
  <2>3. m \in Nat
    BY <2>1
  <2>4. \A j \in 1 .. m : ((j - 1) \div w) + 1 \in 1 .. n /\ ((j - 1) % w) + 1 \in 1 .. w
    <3>. TAKE j \in 1 .. m
    <3>1. j - 1 \in 0 .. w * n - 1
      BY <2>3
    <3>2. (j - 1) \div w \in 0 .. n - 1 /\ (j - 1) % w \in 0 .. w - 1
      BY <3>1, <2>1, PlaceRange
    <3>. QED BY <3>2, <2>1
  <2>5. \A j \in 1 .. m : s[((j - 1) \div w) + 1][((j - 1) % w) + 1] \in Bytes
    <3>1. \A k \in 1 .. n : \A i \in 1 .. w : s[k][i] \in Bytes
      BY <1>2
    <3>. QED BY <2>4, <3>1
  <2>6. text = [j \in 1 .. m |-> s[((j - 1) \div w) + 1][((j - 1) % w) + 1]]
    BY <2>2, <1>4 DEF Joined
  <2>7. text \in Seq(Bytes) /\ Len(text) = m
    <3>. HIDE DEF m, text
    <3>. QED BY <2>3, <2>5, <2>6
  <2>8. ASSUME NEW k \in 1 .. n, NEW i \in 1 .. w
        PROVE  text[w * (k - 1) + i] = lowest(x[k], w)[i]
    <3>. DEFINE j == w * (k - 1) + i
                q == k - 1
                r == i - 1
    <3>1. q \in Nat /\ r \in 0 .. w - 1 /\ w * q \in Nat /\ n - 1 \in Nat /\ q <= n - 1
      BY <2>1
    <3>2. w * q + w <= m
      <4>1. q * w <= (n - 1) * w
        BY <3>1, Times
      <4>2. q * w = w * q /\ (n - 1) * w = w * n - w
        BY <2>1, <3>1
      <4>3. w * n \in Nat
        BY <2>1
      <4>. HIDE DEF q
      <4>. QED BY <4>1, <4>2, <4>3, <3>1
    <3>3. j - 1 = w * q + r
      BY <3>1
    <3>4. j \in 1 .. m
      <4>. HIDE DEF q, r, m
      <4>1. j - 1 \in 0 .. m - 1
        BY <3>1, <3>2, <3>3, <2>3
      <4>. HIDE DEF j
      <4>2. j = (j - 1) + 1
        BY <3>1 DEF j, q
      <4>. QED BY <4>1, <4>2, <2>3
    <3>5. (j - 1) \div w = q /\ (j - 1) % w = r
      <4>. DEFINE l == j - 1
      <4>1. l = w * q + r /\ q \in Int
        BY <3>1, <3>3
      <4>. HIDE DEF l, q, r
      <4>2. l \div w = q /\ l % w = r
        BY <4>1, <3>1, Place
      <4>. QED BY <4>2 DEF l
    <3>6. q + 1 = k /\ r + 1 = i
      OBVIOUS
    <3>. HIDE DEF j, m, q, r
    <3>7. text[j] = s[k][i]
      BY <2>6, <3>4, <3>5, <3>6
    <3>. QED BY <3>7, <1>2 DEF j
  <2>. HIDE DEF text
  <2>. QED BY <2>7, <2>8 DEF n, text, m
<1>. QED BY <1>5, <1>6

\* A word of a text.
LEMMA TextWord ==
    ASSUME NEW x \in Seq(Nat), NEW w \in Nat \ {0}, NEW k \in 1 .. Len(x)
    PROVE  /\ SubSeq(Text(x, w), w * (k - 1) + 1, w * (k - 1) + w) = lowest(x[k], w)
           /\ w * (k - 1) + w <= w * Len(x) /\ w * (k - 1) \in Nat
<1>. DEFINE text == Text(x, w)
            word == lowest(x[k], w)
            p == w * (k - 1)
            l == w * Len(x)
<1>1. /\ text \in Seq(Bytes) /\ Len(text) = l
      /\ \A i \in 1 .. w : text[p + i] = word[i]
  BY TextOf
<1>2. word \in Seq(Bytes) /\ Len(word) = w
  <2>. x[k] \in Nat /\ w \in Nat
    OBVIOUS
  <2>. QED BY LowestType
<1>3. p \in Nat /\ l \in Nat /\ p + w <= l
  <2>1. Len(x) \in Nat /\ k - 1 \in Nat /\ k <= Len(x) /\ k \in Int /\ Len(x) \in Int
    OBVIOUS
  <2>2. k * w <= Len(x) * w
    BY <2>1, Times
  <2>3. k * w = w * (k - 1) + w /\ Len(x) * w = w * Len(x)
    BY <2>1
  <2>4. w * (k - 1) \in Nat /\ w * Len(x) \in Nat
    BY <2>1
  <2>. QED BY <2>2, <2>3, <2>4
<1>. HIDE DEF text, word, p, l
<1>4. \A i \in p + 1 .. p + w : text[i] \in Bytes
  <2>. TAKE i \in p + 1 .. p + w
  <2>1. i \in 1 .. Len(text)
    BY <1>1, <1>3
  <2>. QED BY <2>1, <1>1, ElementOfSeq
<1>5. p + 1 \in Int /\ p + w \in Int /\ (p + w) - (p + 1) + 1 = w /\ p + 1 <= p + w
  BY <1>3
<1>6. /\ SubSeq(text, p + 1, p + w) \in Seq(Bytes)
      /\ Len(SubSeq(text, p + 1, p + w)) = IF p + 1 <= p + w THEN (p + w) - (p + 1) + 1 ELSE 0
      /\ \A i \in 1 .. (p + w) - (p + 1) + 1 : SubSeq(text, p + 1, p + w)[i] = text[(p + 1) + i - 1]
  BY <1>4, <1>5, SubSeqProperties
<1>7. Len(SubSeq(text, p + 1, p + w)) = w
  BY <1>5, <1>6
<1>8. \A i \in 1 .. w : SubSeq(text, p + 1, p + w)[i] = word[i]
  <2>. TAKE i \in 1 .. w
  <2>1. (p + 1) + i - 1 = p + i
    BY <1>3
  <2>2. SubSeq(text, p + 1, p + w)[i] = text[(p + 1) + i - 1]
    BY <1>5, <1>6
  <2>. QED BY <2>1, <2>2, <1>1
<1>9. SubSeq(text, p + 1, p + w) = word
  BY <1>2, <1>6, <1>7, <1>8, SeqEqual
<1>. QED BY <1>3, <1>9 DEF text, word, p, l

\* A message is read word by word.
LEMMA ReadText ==
    ASSUME NEW x \in Seq(Nat), NEW w \in Nat \ {0}
    PROVE  LET c == chunks(Text(x, w), w)
           IN  [k \in DOMAIN c |-> buff2bigintBe(c[k])] = [k \in 1 .. Len(x) |-> x[k] % Power[w]]
<1>. DEFINE b == Text(x, w)
            n == Len(x)
            c == chunks(b, w)
<1>1. n \in Nat /\ b \in Seq(Bytes) /\ Len(b) = w * n
  BY TextOf
<1>2. ((w * n + w) - 1) \div w = n
  <2>1. (w * n + w) - 1 = w * n + (w - 1) /\ w - 1 \in 0 .. w - 1 /\ n \in Int
    BY <1>1
  <2>. DEFINE j == (w * n + w) - 1
              r == w - 1
  <2>2. j = w * n + r /\ r \in 0 .. w - 1
    BY <2>1
  <2>. HIDE DEF j, n, r
  <2>3. j \div w = n
    BY <2>1, <2>2, Place
  <2>. QED BY <2>3 DEF j
<1>3. ASSUME NEW k \in 1 .. n
      PROVE  SubSeq(b, (k - 1) * w + 1, Min({k * w, Len(b)})) = lowest(x[k], w)
  <2>. DEFINE p == w * (k - 1)
              l == Len(b)
              h == k * w
  <2>1. SubSeq(b, p + 1, p + w) = lowest(x[k], w) /\ p + w <= l /\ p \in Nat
    BY <1>1, TextWord
  <2>2. h = p + w /\ (k - 1) * w = p
    BY <1>1
  <2>3. l \in Int
    BY <1>1
  <2>. HIDE DEF p, l, h
  <2>4. h <= l /\ h \in Int
    BY <2>1, <2>2
  <2>5. Min({h, l}) = h
    BY <2>3, <2>4 DEF Min
  <2>6. SubSeq(b, p + 1, Min({h, l})) = lowest(x[k], w)
    BY <2>1, <2>2, <2>5
  <2>. QED BY <2>2, <2>6 DEF l, h
<1>4. c = [k \in 1 .. n |-> SubSeq(b, (k - 1) * w + 1, Min({k * w, Len(b)}))]
  BY <1>1, <1>2 DEF chunks
<1>5. DOMAIN c = 1 .. n /\ \A k \in 1 .. n : c[k] = lowest(x[k], w)
  <2>. HIDE DEF b, c
  <2>. QED BY <1>3, <1>4
<1>6. \A k \in 1 .. n : buff2bigintBe(c[k]) = x[k] % Power[w]
  <2>. TAKE k \in 1 .. n
  <2>1. x[k] \in Nat /\ w \in Nat /\ c[k] = lowest(x[k], w)
    BY <1>5
  <2>. HIDE DEF c
  <2>. QED BY <2>1, ReadBack
<1>. HIDE DEF b, c, n
<1>7. [k \in DOMAIN c |-> buff2bigintBe(c[k])] = [k \in 1 .. n |-> x[k] % Power[w]]
  BY <1>5, <1>6
<1>. QED BY <1>7 DEF b, c, n

-----------------------------------------------------------------------------
\* The words of a proof and its public signals.

LEMMA FitsWord ==
    ASSUME NEW x, fits(x, 32)
    PROVE  x \in Nat /\ x % Power[32] = x
<1>. DEFINE p == Power[16]
<1>1. 32 \div 2 = 16 /\ 32 - 16 = 16 /\ 16 + 16 = 32
  OBVIOUS
<1>2. x \in Nat /\ x \div p < p
  BY <1>1 DEF fits
<1>3. p \in Nat \ {0} /\ Power[32] = p * p
  BY <1>1, PowerSum, PowerType
<1>. HIDE DEF p
<1>4. x = p * (x \div p) + (x % p) /\ x \div p \in Int /\ x % p \in 0 .. p - 1
  <2>1. x \in Int
    BY <1>2
  <2>. QED BY <2>1, <1>3, Division
<1>5. (x \div p) * p <= (p - 1) * p
  BY <1>2, <1>3, <1>4, Times
<1>6. (x \div p) * p = p * (x \div p) /\ (p - 1) * p = p * p - p /\ p * p \in Nat
  BY <1>3, <1>4
<1>7. x < p * p
  BY <1>3, <1>4, <1>5, <1>6, SMTT(40)
<1>8. x \in 0 .. Power[32] - 1 /\ Power[32] \in Nat \ {0}
  BY <1>2, <1>3, <1>6, <1>7
<1>. QED BY <1>8, FirstPlace

\* The bytes of the words of x, one word behind the other.
LEMMA Signals ==
    ASSUME NEW x \in Seq(Nat)
    PROVE  LET text == serializeInputs(x)
           IN  /\ text \in Seq(Bytes) /\ Len(text) = 32 * Len(x)
               /\ \A k \in 1 .. Len(x) : \A i \in 1 .. 32 :
                     text[32 * (k - 1) + i] = lowest(x[k], 32)[i]
<1>1. 32 \in Nat \ {0} /\ serializeInputs(x) = Text(x, 32)
  BY DEF serializeInputs, Text
<1>2. \A w \in Nat \ {0} :
         /\ Text(x, w) \in Seq(Bytes) /\ Len(Text(x, w)) = w * Len(x)
         /\ \A k \in 1 .. Len(x) : \A i \in 1 .. w :
               Text(x, w)[w * (k - 1) + i] = lowest(x[k], w)[i]
  BY TextOf
<1>3. 32 \in Nat \ {0}
  OBVIOUS
<1>4. /\ Text(x, 32) \in Seq(Bytes) /\ Len(Text(x, 32)) = 32 * Len(x)
      /\ \A k \in 1 .. Len(x) : \A i \in 1 .. 32 :
            Text(x, 32)[32 * (k - 1) + i] = lowest(x[k], 32)[i]
  BY <1>2, <1>3, Zenon
<1>. QED BY <1>1, <1>4

\* Bytes of one word of a text.
LEMMA Cut ==
    ASSUME NEW x \in Seq(Nat), NEW k \in 1 .. Len(x), NEW lo \in 0 .. 32, NEW hi \in lo .. 32
    PROVE  SubSeq(serializeInputs(x), 32 * (k - 1) + lo + 1, 32 * (k - 1) + hi)
               = SubSeq(lowest(x[k], 32), lo + 1, hi)
<1>. DEFINE text == serializeInputs(x)
            word == lowest(x[k], 32)
            a == 32 * (k - 1) + lo + 1
            b == 32 * (k - 1) + hi
<1>1. /\ k \in Int /\ k >= 1 /\ k <= Len(x) /\ Len(x) \in Nat /\ x[k] \in Nat
      /\ lo \in Int /\ hi \in Int /\ 0 <= lo /\ lo <= hi /\ hi <= 32
  OBVIOUS
<1>2. /\ text \in Seq(Bytes) /\ Len(text) = 32 * Len(x)
      /\ \A i \in 1 .. 32 : text[32 * (k - 1) + i] = word[i]
  BY Signals
<1>3. word \in Seq(Bytes) /\ Len(word) = 32
  BY <1>1, LowestType
<1>4. a \in Int /\ b \in Int /\ b - a + 1 = hi - lo /\ 1 <= a /\ b <= 32 * Len(x) /\ lo + 1 \in Int
      /\ hi - (lo + 1) + 1 = hi - lo
  BY <1>1
<1>. HIDE DEF text, word, a, b
<1>5. \A i \in a .. b : text[i] \in Bytes
  <2>. TAKE i \in a .. b
  <2>. DEFINE l == 32 * Len(x)
  <2>1. l \in Int /\ Len(text) = l /\ b <= l /\ 1 <= a /\ a \in Int /\ b \in Int
    BY <1>1, <1>2, <1>4
  <2>. HIDE DEF l
  <2>2. i \in 1 .. Len(text)
    BY <2>1
  <2>. QED BY <2>2, <1>2, ElementOfSeq
<1>6. \A i \in lo + 1 .. hi : word[i] \in Bytes
  <2>. TAKE i \in lo + 1 .. hi
  <2>1. i \in 1 .. Len(word)
    BY <1>1, <1>3
  <2>. QED BY <2>1, <1>3, ElementOfSeq
<1>7. \A i \in 1 .. hi - lo : text[a + i - 1] = word[(lo + 1) + i - 1]
  <2>. TAKE i \in 1 .. hi - lo
  <2>1. i \in Int /\ 1 <= i /\ i <= hi - lo
    BY <1>1
  <2>2. lo + i \in 1 .. 32 /\ a + i - 1 = 32 * (k - 1) + (lo + i) /\ (lo + 1) + i - 1 = lo + i
    BY <1>1, <2>1 DEF a
  <2>3. text[32 * (k - 1) + (lo + i)] = word[lo + i]
    BY <2>2, <1>2
  <2>. QED BY <2>2, <2>3
<1>8. /\ SubSeq(text, a, b) \in Seq(Bytes)
      /\ Len(SubSeq(text, a, b)) = IF a <= b THEN b - a + 1 ELSE 0
      /\ \A i \in 1 .. b - a + 1 : SubSeq(text, a, b)[i] = text[a + i - 1]
  BY <1>4, <1>5, SubSeqProperties
<1>9. /\ SubSeq(word, lo + 1, hi) \in Seq(Bytes)
      /\ Len(SubSeq(word, lo + 1, hi)) = IF lo + 1 <= hi THEN hi - (lo + 1) + 1 ELSE 0
      /\ \A i \in 1 .. hi - (lo + 1) + 1 : SubSeq(word, lo + 1, hi)[i] = word[(lo + 1) + i - 1]
  BY <1>1, <1>4, <1>6, SubSeqProperties
<1>10. Len(SubSeq(text, a, b)) = hi - lo /\ Len(SubSeq(word, lo + 1, hi)) = hi - lo
  BY <1>1, <1>4, <1>8, <1>9
<1>11. SubSeq(text, a, b) = SubSeq(word, lo + 1, hi)
  <2>1. \A i \in 1 .. Len(SubSeq(text, a, b)) : SubSeq(text, a, b)[i] = SubSeq(word, lo + 1, hi)[i]
    BY <1>4, <1>7, <1>8, <1>9, <1>10
  <2>. QED BY <2>1, <1>8, <1>9, <1>10, SeqEqual
<1>. QED BY <1>11 DEF a, b, text, word

LEMMA CutWord ==
    ASSUME NEW x \in Seq(Nat), NEW k \in 1 .. Len(x)
    PROVE  takeLR(serializeInputs(x), 32 * (k - 1), 32 * (k - 1) + 32) = lowest(x[k], 32)
<1>1. 0 \in 0 .. 32 /\ 32 \in 0 .. 32 /\ x[k] \in Nat /\ 32 \in Nat
  OBVIOUS
<1>2. SubSeq(serializeInputs(x), 32 * (k - 1) + 0 + 1, 32 * (k - 1) + 32) = SubSeq(lowest(x[k], 32), 0 + 1, 32)
  BY <1>1, Cut
<1>3. 32 * (k - 1) + 0 + 1 = 32 * (k - 1) + 1 /\ 0 + 1 = 1
  OBVIOUS
<1>4. lowest(x[k], 32) \in Seq(Bytes) /\ Len(lowest(x[k], 32)) = 32
  BY <1>1, LowestType
<1>5. SubSeq(lowest(x[k], 32), 1, 32) = lowest(x[k], 32)
  BY <1>4, SubSeqFull
<1>. QED BY <1>2, <1>3, <1>5 DEF takeLR

LEMMA WordAndByte ==
    ASSUME NEW n \in Nat, NEW j \in 1 .. 32 * n
    PROVE  \E k \in 1 .. n : \E i \in 1 .. 32 : j = 32 * (k - 1) + i
<1>. DEFINE k == ((j - 1) \div 32) + 1
            i == ((j - 1) % 32) + 1
<1>1. k \in 1 .. n /\ i \in 1 .. 32 /\ j = 32 * (k - 1) + i
  OBVIOUS
<1>. HIDE DEF k, i
<1>. QED BY <1>1

LEMMA TextOfConcat ==
    ASSUME NEW x \in Seq(Nat), NEW y \in Seq(Nat)
    PROVE  serializeInputs(x \o y) = serializeInputs(x) \o serializeInputs(y)
<1>. DEFINE z == x \o y
            a == serializeInputs(x)
            b == serializeInputs(y)
            c == serializeInputs(z)
            m == Len(x)
            n == Len(y)
<1>1. /\ z \in Seq(Nat) /\ Len(z) = m + n /\ m \in Nat /\ n \in Nat
      /\ \A k \in 1 .. m + n : z[k] = IF k <= m THEN x[k] ELSE y[k - m]
  <2>1. m \in Nat /\ n \in Nat
    OBVIOUS
  <2>. QED BY <2>1, ConcatProperties
<1>. HIDE DEF z
<1>2. /\ a \in Seq(Bytes) /\ Len(a) = 32 * m
      /\ \A k \in 1 .. m : \A i \in 1 .. 32 : a[32 * (k - 1) + i] = lowest(x[k], 32)[i]
  BY Signals
<1>3. /\ b \in Seq(Bytes) /\ Len(b) = 32 * n
      /\ \A k \in 1 .. n : \A i \in 1 .. 32 : b[32 * (k - 1) + i] = lowest(y[k], 32)[i]
  BY Signals
<1>4. /\ c \in Seq(Bytes) /\ Len(c) = 32 * (m + n)
      /\ \A k \in 1 .. m + n : \A i \in 1 .. 32 : c[32 * (k - 1) + i] = lowest(z[k], 32)[i]
  <2>1. z \in Seq(Nat) /\ Len(z) = m + n
    BY <1>1
  <2>. HIDE DEF m, n
  <2>. QED BY <2>1, Signals
<1>. HIDE DEF a, b, c, m, n
<1>5. ASSUME NEW j \in 1 .. 32 * m PROVE c[j] = a[j]
  <2>1. PICK k \in 1 .. m, i \in 1 .. 32 : j = 32 * (k - 1) + i
    BY <1>1, WordAndByte
  <2>2. k \in 1 .. m + n /\ z[k] = x[k]
    BY <1>1, SMTT(40)
  <2>. QED BY <2>1, <2>2, <1>2, <1>4
<1>6. ASSUME NEW j \in 1 .. 32 * n PROVE c[32 * m + j] = b[j]
  <2>1. PICK k \in 1 .. n, i \in 1 .. 32 : j = 32 * (k - 1) + i
    BY <1>1, WordAndByte
  <2>2. m + k \in 1 .. m + n /\ z[m + k] = y[k]
    <3>1. m + k \in 1 .. m + n /\ ~ (m + k <= m) /\ (m + k) - m = k
      BY <1>1
    <3>. QED BY <3>1, <1>1
  <2>3. 32 * m + j = 32 * ((m + k) - 1) + i
    BY <1>1, <2>1
  <2>. QED BY <2>1, <2>2, <2>3, <1>3, <1>4, ZenonT(60)
<1>7. Len(c) = Len(a) + Len(b)
  BY <1>1, <1>2, <1>3, <1>4
<1>8. c = a \o b
  <2>1. \A j \in 1 .. Len(a) : c[j] = a[j]
    BY <1>2, <1>5
  <2>2. \A j \in 1 .. Len(b) : c[Len(a) + j] = b[j]
    BY <1>2, <1>3, <1>6
  <2>. QED BY <2>1, <2>2, <1>2, <1>3, <1>4, <1>7, IsConcatenation
<1>. QED BY <1>8 DEF a, b, c, z

LEMMA TextOfWord ==
    ASSUME NEW x \in Nat
    PROVE  serializeInputs(<<x>>) = lowest(x, 32)
<1>1. <<x>> \in Seq(Nat) /\ Len(<<x>>) = 1 /\ 1 \in 1 .. 1 /\ <<x>>[1] = x
  OBVIOUS
<1>. DEFINE text == serializeInputs(<<x>>)
<1>2. text \in Seq(Bytes) /\ Len(text) = 32 * 1
  BY <1>1, Signals
<1>3. takeLR(text, 32 * (1 - 1), 32 * (1 - 1) + 32) = lowest(x, 32)
  BY <1>1, CutWord
<1>. HIDE DEF text
<1>4. takeLR(text, 32 * (1 - 1), 32 * (1 - 1) + 32) = SubSeq(text, 1, Len(text))
  BY <1>2 DEF takeLR
<1>5. SubSeq(text, 1, Len(text)) = text
  BY <1>2, SubSeqFull
<1>. QED BY <1>3, <1>4, <1>5 DEF text

\* A message is read word by word.
LEMMA ReadMessage ==
    ASSUME NEW x \in Seq(Nat)
    PROVE  deserializeMessage(serializeInputs(x)) = [k \in 1 .. Len(x) |-> x[k] % Power[32]]
<1>1. 32 \in Nat \ {0} /\ WordSize = 32 /\ serializeInputs(x) = Text(x, 32)
  BY WordsAssumption DEF serializeInputs, Text
<1>2. LET c == chunks(Text(x, 32), 32)
      IN  [k \in DOMAIN c |-> buff2bigintBe(c[k])] = [k \in 1 .. Len(x) |-> x[k] % Power[32]]
  BY <1>1, ReadText
<1>. QED BY <1>1, <1>2 DEF deserializeMessage

-----------------------------------------------------------------------------
\* What a call is made of.
IsDeposit(c) ==
    \E hash \in Nat, balance \in Nat, note \in Encrypted :
        /\ balance < Power[8]
        /\ c = [function |-> "deposit", signals |-> <<hash, balance>>, v |-> serializeInputs(<<hash>>),
                m |-> <<serializeMessage(note)>>, payment |-> balance, em |-> <<note>>]

IsWithdrawal(c) ==
    \E signals \in Seq(Nat) :
        /\ Len(signals) = 11 /\ signals[10] < Power[26] /\ signals[11] < Power[8]
        /\ c = [function |-> "withdrawal", signals |-> signals, v |-> serializeInputs(signals),
                m |-> <<>>, payment |-> 0, em |-> <<>>]

IsTransfer(c) ==
    \E signals \in Seq(Nat), em0 \in Encrypted, em1 \in Encrypted :
        /\ Len(signals) = 12
        /\ c = [function |-> "transfer", signals |-> signals, v |-> serializeInputs(signals),
                m |-> <<serializeMessage(em0), serializeMessage(em1)>>, payment |-> 0, em |-> <<em0, em1>>]

Calls == call = none \/ IsDeposit(call) \/ IsWithdrawal(call) \/ IsTransfer(call)

\* The words that a call turns into, and what else the contract read.
MessageWords(c) ==
    CASE c.function = "deposit"    -> <<c.signals[1]>> \o c.em[1]
      [] c.function = "withdrawal" -> <<c.signals[9]>>
      [] c.function = "transfer"   ->
            (<<c.signals[9], c.signals[10], c.signals[11], c.signals[12]>> \o c.em[1]) \o c.em[2]

Executed ==
    result # none =>
        /\ call # none /\ result.function = call.function
        /\ result.message = serializeInputs(MessageWords(call))
        /\ call.function = "deposit" => result.nullifiers = <<>>
        /\ call.function = "withdrawal" => result.outputs = <<>>

WireInv ==
    /\ Calls /\ Executed
    /\ ProofMatches /\ FieldsAreSignals /\ WalletLearns
    /\ learnt # none => result # none

-----------------------------------------------------------------------------
LEMMA SmallFits ==
    ASSUME NEW x \in Nat, NEW n \in Nat, x < Power[n]
    PROVE  x % Power[n] = x /\ \A k \in Nat : n <= k => byteOf(x, k) = 0
<1>1. Power[n] \in Nat \ {0} /\ x \in 0 .. Power[n] - 1
  BY PowerType
<1>2. ASSUME NEW k \in Nat, n <= k PROVE byteOf(x, k) = 0
  <2>1. Power[k] \in Nat \ {0} /\ Power[n] <= Power[k]
    BY <1>2, PowerType, PowerGrows
  <2>2. x \in 0 .. Power[k] - 1
    BY <1>1, <2>1
  <2>3. x \div Power[k] = 0
    BY <2>1, <2>2, FirstPlace
  <2>4. 0 \in 0 .. Byte - 1 /\ Byte \in Nat \ {0}
    BY ByteType
  <2>5. 0 % Byte = 0
    BY <2>4, FirstPlace
  <2>. QED BY <2>3, <2>5 DEF byteOf
<1>. QED BY <1>1, <1>2, FirstPlace

\* The last bytes of a word.
LEMMA LowBytes ==
    ASSUME NEW x \in Nat, NEW n \in 1 .. 32
    PROVE  SubSeq(lowest(x, 32), (32 - n) + 1, 32) = lowest(x, n)
<1>. DEFINE word == lowest(x, 32)
            a == (32 - n) + 1
<1>1. word \in Seq(Bytes) /\ Len(word) = 32 /\ \A i \in 1 .. 32 : word[i] = byteOf(x, 32 - i)
  BY LowestType
<1>2. /\ lowest(x, n) \in Seq(Bytes) /\ Len(lowest(x, n)) = n
      /\ \A i \in 1 .. n : lowest(x, n)[i] = byteOf(x, n - i)
  <2>. n \in Nat
    OBVIOUS
  <2>. QED BY LowestType
<1>3. a \in 1 .. 32 /\ 32 \in 1 .. 32 /\ 32 \in Int /\ a \in Int /\ 32 - a + 1 = n /\ a <= 32
  OBVIOUS
<1>. HIDE DEF word, a
<1>4. \A i \in a .. 32 : word[i] \in Bytes
  <2>. TAKE i \in a .. 32
  <2>1. i \in 1 .. 32
    BY <1>3
  <2>2. i \in 1 .. Len(word)
    BY <1>1, <2>1
  <2>. QED BY <2>2, <1>1, ElementOfSeq
<1>5. /\ SubSeq(word, a, 32) \in Seq(Bytes)
      /\ Len(SubSeq(word, a, 32)) = IF a <= 32 THEN 32 - a + 1 ELSE 0
      /\ \A i \in 1 .. 32 - a + 1 : SubSeq(word, a, 32)[i] = word[a + i - 1]
  BY <1>3, <1>4, SubSeqProperties
<1>6. \A i \in 1 .. n : SubSeq(word, a, 32)[i] = lowest(x, n)[i]
  <2>. TAKE i \in 1 .. n
  <2>1. a + i - 1 \in 1 .. 32 /\ 32 - (a + i - 1) = n - i
    BY DEF a
  <2>2. SubSeq(word, a, 32)[i] = byteOf(x, 32 - (a + i - 1))
    BY <1>1, <1>3, <1>5, <2>1
  <2>. QED BY <2>1, <2>2, <1>2
<1>7. SubSeq(word, a, 32) = lowest(x, n)
  BY <1>2, <1>3, <1>5, <1>6, SeqEqual
<1>. QED BY <1>7 DEF a, word

\* A number below 256^8 is written as 24 zeros and eight bytes.
LEMMA LeadingZeros ==
    ASSUME NEW x \in Nat, x < Power[8]
    PROVE  lowest(x, 32) = leadingZeros \o toBytes(x)
<1>. DEFINE a == lowest(x, 32)
            b == lowest(x, 8)
            z == leadingZeros
<1>1. toBytes(x) = b
  BY WriteBackBe DEF toBytes
<1>2. a \in Seq(Bytes) /\ Len(a) = 32 /\ \A i \in 1 .. 32 : a[i] = byteOf(x, 32 - i)
  BY LowestType
<1>3. b \in Seq(Bytes) /\ Len(b) = 8 /\ \A i \in 1 .. 8 : b[i] = byteOf(x, 8 - i)
  BY LowestType
<1>4. z \in Seq(Bytes) /\ Len(z) = 24 /\ \A i \in 1 .. 24 : z[i] = 0
  <2>1. 0 \in Bytes
    BY ByteType DEF Bytes
  <2>. QED BY <2>1 DEF leadingZeros
<1>. HIDE DEF a, b, z
<1>5. \A j \in 1 .. 24 : a[j] = z[j]
  <2>. TAKE j \in 1 .. 24
  <2>1. 32 - j \in Nat /\ 8 <= 32 - j /\ j \in 1 .. 32 /\ 8 \in Nat
    OBVIOUS
  <2>. QED BY <2>1, <1>2, <1>4, SmallFits
<1>6. \A k \in 1 .. 8 : a[24 + k] = b[k]
  <2>. TAKE k \in 1 .. 8
  <2>1. 24 + k \in 1 .. 32 /\ 32 - (24 + k) = 8 - k
    OBVIOUS
  <2>. QED BY <2>1, <1>2, <1>3
<1>7. a = z \o b
  <2>1. Len(a) = Len(z) + Len(b)
    BY <1>2, <1>3, <1>4
  <2>2. \A j \in 1 .. Len(z) : a[j] = z[j]
    BY <1>4, <1>5
  <2>3. \A k \in 1 .. Len(b) : a[Len(z) + k] = b[k]
    BY <1>3, <1>4, <1>6
  <2>. QED BY <2>1, <2>2, <2>3, <1>2, <1>3, <1>4, IsConcatenation
<1>. QED BY <1>1, <1>7 DEF a, z

LEMMA EncryptedWords ==
    ASSUME NEW e \in Encrypted
    PROVE  /\ e \in Seq(Nat) /\ Len(e) = 5 /\ \A k \in 1 .. 5 : e[k] % Power[32] = e[k]
           /\ serializeMessage(e) = serializeInputs(e)
<1>1. e \in Seq(Nat) /\ Len(e) = 5 /\ (\A k \in 1 .. 5 : fits(e[k], 32)) /\ WordSize = 32
  BY WordsAssumption
<1>2. \A k \in 1 .. 5 : e[k] % Power[32] = e[k]
  BY <1>1, FitsWord
<1>. QED BY <1>1, <1>2 DEF serializeMessage, serializeInputs

\* What the contract reads at the place of word k.
LEMMA Fields ==
    ASSUME NEW x \in Seq(Nat), NEW k \in 1 .. Len(x)
    PROVE  LET v == serializeInputs(x)
               p == 32 * (k - 1)
           IN  /\ takeLR(v, p, p + 32) = bigint2buffBe(x[k], 32)
               /\ bigint2buffBe(x[k], 32) = serializeInputs(<<x[k]>>)
               /\ buff2bigintBe(bigint2buffBe(x[k], 32)) = x[k] % Power[32]
               /\ x[k] < Power[26] => buff2bigintBe(takeLR(v, p + 6, p + 32)) = x[k]
               /\ x[k] < Power[8] /\ 2 * x[k] < Power[8] => toInt(v, p + 24) = x[k]
<1>. DEFINE v == serializeInputs(x)
            p == 32 * (k - 1)
            y == x[k]
<1>1. y \in Nat /\ p \in Int /\ 6 \in 0 .. 32 /\ 24 \in 0 .. 32 /\ 32 \in 6 .. 32 /\ 32 \in 24 .. 32
      /\ 8 \in Nat /\ 26 \in Nat /\ 32 \in Nat
  OBVIOUS
<1>2. takeLR(v, p, p + 32) = lowest(y, 32)
  BY CutWord
<1>3. bigint2buffBe(y, 32) = lowest(y, 32) /\ serializeInputs(<<y>>) = lowest(y, 32)
  BY <1>1, WriteBackBe, TextOfWord
<1>4. buff2bigintBe(lowest(y, 32)) = y % Power[32] /\ buff2bigintBe(lowest(y, 26)) = y % Power[26]
      /\ buff2bigintBe(lowest(y, 8)) = y % Power[8]
  BY <1>1, ReadBack
<1>5. takeLR(v, p + 6, p + 32) = lowest(y, 26)
  <2>1. SubSeq(v, p + 6 + 1, p + 32) = SubSeq(lowest(y, 32), 6 + 1, 32)
    BY <1>1, Cut
  <2>2. SubSeq(lowest(y, 32), (32 - 26) + 1, 32) = lowest(y, 26)
    <3>. 26 \in 1 .. 32
      OBVIOUS
    <3>. QED BY <1>1, LowBytes
  <2>3. (32 - 26) + 1 = 6 + 1
    OBVIOUS
  <2>. QED BY <2>1, <2>2, <2>3 DEF takeLR
<1>6. takeLR(v, p + 24, p + 32) = lowest(y, 8)
  <2>1. SubSeq(v, p + 24 + 1, p + 32) = SubSeq(lowest(y, 32), 24 + 1, 32)
    BY <1>1, Cut
  <2>2. SubSeq(lowest(y, 32), (32 - 8) + 1, 32) = lowest(y, 8)
    <3>. 8 \in 1 .. 32
      OBVIOUS
    <3>. QED BY <1>1, LowBytes
  <2>3. (32 - 8) + 1 = 24 + 1
    OBVIOUS
  <2>. QED BY <2>1, <2>2, <2>3 DEF takeLR
<1>7. y < Power[26] => y % Power[26] = y
  BY <1>1, SmallFits
<1>8. y < Power[8] => y % Power[8] = y
  BY <1>1, SmallFits
<1>9. (p + 24) + 8 = p + 32
  BY <1>1
<1>. HIDE DEF v, p, y
<1>10. ASSUME y < Power[8], 2 * y < Power[8] PROVE toInt(v, p + 24) = y
  BY <1>10, <1>4, <1>6, <1>8, <1>9 DEF toInt
<1>11. y < Power[26] => buff2bigintBe(takeLR(v, p + 6, p + 32)) = y
  BY <1>4, <1>5, <1>7
<1>12. bigint2buffBe(y, 32) = serializeInputs(<<y>>) /\ buff2bigintBe(bigint2buffBe(y, 32)) = y % Power[32]
       /\ takeLR(v, p, p + 32) = bigint2buffBe(y, 32)
  BY <1>2, <1>3, <1>4
<1>. QED BY <1>10, <1>11, <1>12 DEF v, p, y

\* The input hashes: the first eight words.
LEMMA InputFields ==
    ASSUME NEW x \in Seq(Nat), Len(x) >= 8
    PROVE  {uk(serializeInputs(x))[k] : k \in 0 .. 7} = {bigint2buffBe(x[k], 32) : k \in 1 .. 8}
<1>. DEFINE v == serializeInputs(x)
<1>1. \A k \in 1 .. 8 : takeLR(v, 32 * (k - 1), 32 * (k - 1) + 32) = bigint2buffBe(x[k], 32)
  <2>. TAKE k \in 1 .. 8
  <2>. k \in 1 .. Len(x)
    OBVIOUS
  <2>. QED BY Fields
<1>. HIDE DEF v
<1>2. \A k \in 0 .. 7 : uk(v)[k] = bigint2buffBe(x[k + 1], 32)
  <2>. TAKE k \in 0 .. 7
  <2>1. k + 1 \in 1 .. 8 /\ (k + 1) - 1 = k
    OBVIOUS
  <2>. QED BY <2>1, <1>1 DEF uk
<1>3. \A k \in 1 .. 8 : k - 1 \in 0 .. 7 /\ (k - 1) + 1 = k
  OBVIOUS
<1>4. {uk(v)[k] : k \in 0 .. 7} = {bigint2buffBe(x[k], 32) : k \in 1 .. 8}
  <2>1. \A k \in 0 .. 7 : k + 1 \in 1 .. 8
    OBVIOUS
  <2>. QED BY <1>2, <1>3, <2>1
<1>. QED BY <1>4 DEF v

-----------------------------------------------------------------------------
LEMMA DepositCall ==
    ASSUME deposit PROVE IsDeposit(call')
<1>1. PICK hash \in Hashes, balance \in Balances, note \in Encrypted :
         call' = [function |-> "deposit", signals |-> <<hash, balance>>,
                  v |-> serializeInputs(depositSignals(<<hash, balance>>)),
                  m |-> <<serializeMessage(note)>>, payment |-> balance, em |-> <<note>>]
  BY DEF deposit
<1>2. hash \in Nat /\ balance \in Nat /\ balance < Power[8]
  BY WordsAssumption
<1>3. depositSignals(<<hash, balance>>) = <<hash>>
  <2>. DEFINE s == <<hash, balance>>
  <2>1. s \in Seq(Nat) /\ Len(s) = 2 /\ s[1] = hash /\ Len(s) - 1 = 1
    BY <1>2
  <2>. HIDE DEF s
  <2>2. /\ SubSeq(s, 1, 1) \in Seq(Nat)
        /\ Len(SubSeq(s, 1, 1)) = IF 1 <= 1 THEN 1 - 1 + 1 ELSE 0
        /\ \A i \in 1 .. 1 - 1 + 1 : SubSeq(s, 1, 1)[i] = s[1 + i - 1]
    <3>1. \A i \in 1 .. 1 : s[i] \in Nat
      BY <2>1
    <3>. QED BY <3>1, SubSeqProperties
  <2>3. SubSeq(s, 1, 1)[1] = hash /\ Len(SubSeq(s, 1, 1)) = 1
    <3>1. 1 \in 1 .. 1 - 1 + 1 /\ 1 + 1 - 1 = 1
      OBVIOUS
    <3>. QED BY <3>1, <2>1, <2>2
  <2>4. SubSeq(s, 1, 1) = <<hash>>
    <3>1. <<hash>> \in Seq(Nat) /\ Len(<<hash>>) = 1 /\ <<hash>>[1] = hash
      BY <1>2
    <3>2. \A i \in 1 .. Len(SubSeq(s, 1, 1)) : SubSeq(s, 1, 1)[i] = <<hash>>[i]
      BY <2>3, <3>1
    <3>. QED BY <2>2, <2>3, <3>1, <3>2, SeqEqual
  <2>. QED BY <2>1, <2>4 DEF depositSignals, s
<1>. QED BY <1>1, <1>2, <1>3 DEF IsDeposit

LEMMA WithdrawalCall ==
    ASSUME withdrawal PROVE IsWithdrawal(call')
<1>1. PICK in_hashes \in Anonymity, nullifier \in Hashes, receiver \in Receivers, balance \in Balances :
         LET signals == in_hashes \o <<nullifier, receiver, balance>>
         IN  call' = [function |-> "withdrawal", signals |-> signals, v |-> serializeInputs(signals),
                      m |-> <<>>, payment |-> 0, em |-> <<>>]
  BY DEF withdrawal
<1>2. nullifier \in Nat /\ receiver \in Nat /\ balance \in Nat /\ balance < Power[8] /\ receiver < Power[26]
      /\ in_hashes \in Seq(Nat) /\ Len(in_hashes) = 8
  BY WordsAssumption
<1>. DEFINE y == <<nullifier, receiver, balance>>
            signals == in_hashes \o y
<1>3. y \in Seq(Nat) /\ Len(y) = 3 /\ y[2] = receiver /\ y[3] = balance
  BY <1>2
<1>. HIDE DEF y
<1>4. signals \in Seq(Nat) /\ Len(signals) = 11 /\ signals[10] = y[2] /\ signals[11] = y[3]
  <2>1. signals \in Seq(Nat) /\ Len(signals) = 8 + 3
        /\ \A i \in 1 .. 8 + 3 : signals[i] = IF i <= 8 THEN in_hashes[i] ELSE y[i - 8]
    <3>1. /\ signals \in Seq(Nat) /\ Len(signals) = Len(in_hashes) + Len(y)
          /\ \A i \in 1 .. Len(in_hashes) + Len(y) :
                signals[i] = IF i <= Len(in_hashes) THEN in_hashes[i] ELSE y[i - Len(in_hashes)]
      BY <1>2, <1>3, ConcatProperties
    <3>. HIDE DEF signals
    <3>. QED BY <3>1, <1>2, <1>3
  <2>. HIDE DEF signals
  <2>2. 10 \in 1 .. 8 + 3 /\ 11 \in 1 .. 8 + 3 /\ 10 - 8 = 2 /\ 11 - 8 = 3
    OBVIOUS
  <2>. QED BY <2>1, <2>2
<1>. HIDE DEF signals
<1>5. call' = [function |-> "withdrawal", signals |-> signals, v |-> serializeInputs(signals),
               m |-> <<>>, payment |-> 0, em |-> <<>>]
  BY <1>1 DEF signals, y
<1>. QED BY <1>2, <1>3, <1>4, <1>5 DEF IsWithdrawal

LEMMA TransferCall ==
    ASSUME transfer PROVE IsTransfer(call')
<1>1. PICK in_hashes \in Anonymity, nullifier \in Hashes \X Hashes, out_hash \in Hashes \X Hashes,
           note \in Encrypted \X Encrypted :
         LET signals == in_hashes \o nullifier \o out_hash
         IN  call' = [function |-> "transfer", signals |-> signals, v |-> serializeInputs(signals),
                      m |-> <<serializeMessage(note[1]), serializeMessage(note[2])>>,
                      payment |-> 0, em |-> note]
  BY DEF transfer
<1>. DEFINE x == in_hashes \o nullifier
            signals == x \o out_hash
<1>2. in_hashes \in Seq(Nat) /\ Len(in_hashes) = 8
  BY WordsAssumption
<1>3. nullifier \in Seq(Nat) /\ Len(nullifier) = 2 /\ out_hash \in Seq(Nat) /\ Len(out_hash) = 2
  <2>1. Hashes \subseteq Nat
    BY WordsAssumption
  <2>2. \A p \in Hashes \X Hashes : p \in Seq(Nat) /\ Len(p) = 2
    <3>. TAKE p \in Hashes \X Hashes
    <3>1. PICK a \in Hashes, b \in Hashes : p = <<a, b>>
      OBVIOUS
    <3>. QED BY <2>1, <3>1
  <2>. QED BY <2>2
<1>4. note[1] \in Encrypted /\ note[2] \in Encrypted /\ note = <<note[1], note[2]>>
  OBVIOUS
<1>5. x \in Seq(Nat) /\ Len(x) = 10
  <2>1. in_hashes \o nullifier \in Seq(Nat) /\ Len(in_hashes \o nullifier) = Len(in_hashes) + Len(nullifier)
    BY <1>2, <1>3, ConcatProperties
  <2>. QED BY <2>1, <1>2, <1>3
<1>. HIDE DEF x
<1>6. signals \in Seq(Nat) /\ Len(signals) = 12
  <2>1. x \o out_hash \in Seq(Nat) /\ Len(x \o out_hash) = Len(x) + Len(out_hash)
    BY <1>2, <1>3, <1>5, ConcatProperties
  <2>. QED BY <2>1, <1>2, <1>3, <1>5
<1>7. call' = [function |-> "transfer", signals |-> signals, v |-> serializeInputs(signals),
               m |-> <<serializeMessage(note[1]), serializeMessage(note[2])>>,
               payment |-> 0, em |-> <<note[1], note[2]>>]
  BY <1>1, <1>4 DEF x
<1>. HIDE DEF signals
<1>. QED BY <1>4, <1>6, <1>7 DEF IsTransfer

-----------------------------------------------------------------------------
LEMMA TwoWords ==
    ASSUME NEW a \in Nat, NEW b \in Nat
    PROVE  <<a>> \o <<b>> = <<a, b>>
<1>1. /\ <<a>> \in Seq(Nat) /\ <<b>> \in Seq(Nat) /\ <<a, b>> \in Seq(Nat)
      /\ Len(<<a, b>>) = Len(<<a>>) + Len(<<b>>)
  OBVIOUS
<1>2. \A j \in 1 .. Len(<<a>>) : <<a, b>>[j] = <<a>>[j]
  OBVIOUS
<1>3. \A k \in 1 .. Len(<<b>>) : <<a, b>>[Len(<<a>>) + k] = <<b>>[k]
  OBVIOUS
<1>. QED BY <1>1, <1>2, <1>3, IsConcatenation

LEMMA FourWords ==
    ASSUME NEW a \in Nat, NEW b \in Nat, NEW c \in Nat, NEW d \in Nat
    PROVE  /\ <<a, b>> \o <<c>> = <<a, b, c>>
           /\ <<a, b, c>> \o <<d>> = <<a, b, c, d>>
<1>1. /\ <<c>> \in Seq(Nat) /\ <<d>> \in Seq(Nat) /\ <<a, b>> \in Seq(Nat) /\ <<a, b, c>> \in Seq(Nat)
      /\ <<a, b, c, d>> \in Seq(Nat)
      /\ Len(<<a, b, c>>) = Len(<<a, b>>) + Len(<<c>>)
      /\ Len(<<a, b, c, d>>) = Len(<<a, b, c>>) + Len(<<d>>)
  OBVIOUS
<1>2. \A j \in 1 .. Len(<<a, b>>) : <<a, b, c>>[j] = <<a, b>>[j]
  OBVIOUS
<1>3. \A k \in 1 .. Len(<<c>>) : <<a, b, c>>[Len(<<a, b>>) + k] = <<c>>[k]
  OBVIOUS
<1>4. \A j \in 1 .. Len(<<a, b, c>>) : <<a, b, c, d>>[j] = <<a, b, c>>[j]
  OBVIOUS
<1>5. \A k \in 1 .. Len(<<d>>) : <<a, b, c, d>>[Len(<<a, b, c>>) + k] = <<d>>[k]
  OBVIOUS
<1>6. <<a, b>> \o <<c>> = <<a, b, c>>
  BY <1>1, <1>2, <1>3, IsConcatenation
<1>7. <<a, b, c>> \o <<d>> = <<a, b, c, d>>
  BY <1>1, <1>4, <1>5, IsConcatenation
<1>. QED BY <1>6, <1>7

\* One case of Execute per function.
LEMMA ExecuteDeposit ==
    ASSUME IsDeposit(call), Execute
    PROVE  ProofMatches' /\ FieldsAreSignals' /\ Executed'
<1>1. PICK hash \in Nat, balance \in Nat, note \in Encrypted :
         /\ balance < Power[8]
         /\ call = [function |-> "deposit", signals |-> <<hash, balance>>, v |-> serializeInputs(<<hash>>),
                    m |-> <<serializeMessage(note)>>, payment |-> balance, em |-> <<note>>]
  BY DEF IsDeposit
<1>. DEFINE v == serializeInputs(<<hash>>)
<1>2. call' = call /\ call # none
  BY DEF Execute
<1>3. result' = [function |-> "deposit", verified |-> (v \o leadingZeros) \o toBytes(balance),
                 inputs |-> {}, nullifiers |-> <<>>, outputs |-> <<takeLR(v, 0, 32)>>,
                 receiver |-> <<>>, balance |-> balance,
                 message |-> takeLR(v, 0, 32) \o serializeMessage(note)]
  BY <1>1 DEF Execute
<1>4. takeLR(v, 0, 32) = bigint2buffBe(hash, 32) /\ bigint2buffBe(hash, 32) = v
  <2>1. <<hash>> \in Seq(Nat) /\ 1 \in 1 .. Len(<<hash>>) /\ <<hash>>[1] = hash
    OBVIOUS
  <2>2. 32 * (1 - 1) = 0 /\ 0 + 32 = 32
    OBVIOUS
  <2>. QED BY <2>1, <2>2, Fields, ZenonT(60)
<1>5. (v \o leadingZeros) \o toBytes(balance) = serializeInputs(<<hash, balance>>)
  <2>. DEFINE z == leadingZeros
              b == toBytes(balance)
  <2>1. z \in Seq(Bytes)
    <3>1. 0 \in Bytes
      BY ByteType DEF Bytes
    <3>. QED BY <3>1 DEF leadingZeros
  <2>2. b \in Seq(Bytes)
    BY WriteBackBe, LowestType DEF toBytes
  <2>3. <<hash>> \in Seq(Nat) /\ <<balance>> \in Seq(Nat) /\ <<hash>> \o <<balance>> = <<hash, balance>>
    BY TwoWords
  <2>4. v \in Seq(Bytes)
    BY <2>3, Signals
  <2>5. z \o b = serializeInputs(<<balance>>)
    BY <1>1, LeadingZeros, TextOfWord
  <2>6. serializeInputs(<<hash>> \o <<balance>>) = v \o serializeInputs(<<balance>>)
    BY <2>3, TextOfConcat
  <2>. HIDE DEF v, z, b
  <2>7. (v \o z) \o b = v \o (z \o b)
    BY <2>1, <2>2, <2>4, ConcatAssociative
  <2>. QED BY <2>3, <2>5, <2>6, <2>7 DEF z, b
<1>6. v \o serializeMessage(note) = serializeInputs(<<hash>> \o note)
  <2>1. <<hash>> \in Seq(Nat) /\ note \in Seq(Nat) /\ serializeMessage(note) = serializeInputs(note)
    BY EncryptedWords
  <2>. QED BY <2>1, TextOfConcat
<1>. HIDE DEF v
<1>7. ProofMatches'
  BY <1>1, <1>2, <1>3, <1>5 DEF ProofMatches
<1>8. FieldsAreSignals'
  BY <1>1, <1>2, <1>3, <1>4 DEF FieldsAreSignals
<1>9. Executed'
  BY <1>1, <1>2, <1>3, <1>4, <1>6 DEF Executed, MessageWords
<1>. QED BY <1>7, <1>8, <1>9

LEMMA ExecuteWithdrawal ==
    ASSUME IsWithdrawal(call), Execute
    PROVE  ProofMatches' /\ FieldsAreSignals' /\ Executed'
<1>1. PICK signals \in Seq(Nat) :
         /\ Len(signals) = 11 /\ signals[10] < Power[26] /\ signals[11] < Power[8]
         /\ call = [function |-> "withdrawal", signals |-> signals, v |-> serializeInputs(signals),
                    m |-> <<>>, payment |-> 0, em |-> <<>>]
  BY DEF IsWithdrawal
<1>. DEFINE v == serializeInputs(signals)
<1>2. call' = call /\ call # none
  BY DEF Execute
<1>3. result' = [function |-> "withdrawal", verified |-> v,
                 inputs |-> {uk(v)[k] : k \in 0 .. 7}, nullifiers |-> <<takeLR(v, 256, 288)>>,
                 outputs |-> <<>>, receiver |-> takeLR(v, 294, 320), balance |-> toInt(v, 320 + 3 * 8),
                 message |-> takeLR(v, 256, 288)]
  BY <1>1 DEF Execute
<1>4. {uk(v)[k] : k \in 0 .. 7} = {bigint2buffBe(signals[k], 32) : k \in 1 .. 8}
  <2>. Len(signals) >= 8
    BY <1>1
  <2>. QED BY InputFields
<1>5. takeLR(v, 256, 288) = bigint2buffBe(signals[9], 32)
      /\ bigint2buffBe(signals[9], 32) = serializeInputs(<<signals[9]>>)
  <2>1. 9 \in 1 .. Len(signals) /\ 32 * (9 - 1) = 256 /\ 256 + 32 = 288
    BY <1>1
  <2>. QED BY <2>1, Fields
<1>6. buff2bigintBe(takeLR(v, 294, 320)) = signals[10]
  <2>1. 10 \in 1 .. Len(signals) /\ 32 * (10 - 1) = 288 /\ 288 + 6 = 294 /\ 288 + 32 = 320
    BY <1>1
  <2>2. signals[10] < Power[26]
           => buff2bigintBe(takeLR(v, 32 * (10 - 1) + 6, 32 * (10 - 1) + 32)) = signals[10]
    <3>1. \A k \in 1 .. Len(signals) :
             signals[k] < Power[26]
                => buff2bigintBe(takeLR(v, 32 * (k - 1) + 6, 32 * (k - 1) + 32)) = signals[k]
      BY Fields
    <3>. HIDE DEF v
    <3>. QED BY <2>1, <3>1
  <2>. HIDE DEF v
  <2>. QED BY <2>1, <2>2, <1>1
<1>7. 2 * signals[11] < Power[8] => toInt(v, 320 + 3 * 8) = signals[11]
  <2>1. 11 \in 1 .. Len(signals) /\ 32 * (11 - 1) = 320 /\ 320 + 24 = 320 + 3 * 8
    BY <1>1
  <2>2. signals[11] < Power[8] /\ 2 * signals[11] < Power[8] => toInt(v, 32 * (11 - 1) + 24) = signals[11]
    <3>1. \A k \in 1 .. Len(signals) :
             signals[k] < Power[8] /\ 2 * signals[k] < Power[8]
                => toInt(v, 32 * (k - 1) + 24) = signals[k]
      BY Fields
    <3>. HIDE DEF v
    <3>. QED BY <2>1, <3>1
  <2>. HIDE DEF v
  <2>. QED BY <2>1, <2>2, <1>1
<1>. HIDE DEF v
<1>8. ProofMatches'
  BY <1>1, <1>2, <1>3 DEF ProofMatches, v
<1>9. FieldsAreSignals'
  BY <1>1, <1>2, <1>3, <1>4, <1>5, <1>6, <1>7, ZenonT(60) DEF FieldsAreSignals
<1>10. Executed'
  BY <1>1, <1>2, <1>3, <1>5 DEF Executed, MessageWords
<1>. QED BY <1>8, <1>9, <1>10

LEMMA ExecuteTransfer ==
    ASSUME IsTransfer(call), Execute
    PROVE  ProofMatches' /\ FieldsAreSignals' /\ Executed'
<1>1. PICK signals \in Seq(Nat), em0 \in Encrypted, em1 \in Encrypted :
         /\ Len(signals) = 12
         /\ call = [function |-> "transfer", signals |-> signals, v |-> serializeInputs(signals),
                    m |-> <<serializeMessage(em0), serializeMessage(em1)>>, payment |-> 0,
                    em |-> <<em0, em1>>]
  BY DEF IsTransfer
<1>. DEFINE v == serializeInputs(signals)
            rn0 == takeLR(v, 256, 288)
            rn1 == takeLR(v, 288, 320)
            ou0 == takeLR(v, 320, 352)
            ou1 == takeLR(v, 352, 384)
<1>2. call' = call /\ call # none
  BY DEF Execute
<1>3. result' = [function |-> "transfer", verified |-> v,
                 inputs |-> {uk(v)[k] : k \in 0 .. 7}, nullifiers |-> <<rn0, rn1>>,
                 outputs |-> <<ou0, ou1>>, receiver |-> <<>>, balance |-> 0,
                 message |-> ((((rn0 \o rn1) \o ou0) \o ou1) \o serializeMessage(em0))
                                \o serializeMessage(em1)]
  BY <1>1 DEF Execute
<1>4. {uk(v)[k] : k \in 0 .. 7} = {bigint2buffBe(signals[k], 32) : k \in 1 .. 8}
  <2>. Len(signals) >= 8
    BY <1>1
  <2>. QED BY InputFields
<1>5. /\ rn0 = bigint2buffBe(signals[9], 32) /\ rn0 = serializeInputs(<<signals[9]>>)
      /\ rn1 = bigint2buffBe(signals[10], 32) /\ rn1 = serializeInputs(<<signals[10]>>)
      /\ ou0 = bigint2buffBe(signals[11], 32) /\ ou0 = serializeInputs(<<signals[11]>>)
      /\ ou1 = bigint2buffBe(signals[12], 32) /\ ou1 = serializeInputs(<<signals[12]>>)
  <2>1. \A k \in 9 .. 12 : /\ takeLR(v, 32 * (k - 1), 32 * (k - 1) + 32) = bigint2buffBe(signals[k], 32)
                           /\ bigint2buffBe(signals[k], 32) = serializeInputs(<<signals[k]>>)
    <3>. TAKE k \in 9 .. 12
    <3>1. k \in 1 .. Len(signals)
      BY <1>1
    <3>. QED BY <3>1, Fields
  <2>2. /\ 9 \in 9 .. 12 /\ 32 * (9 - 1) = 256 /\ 256 + 32 = 288
        /\ 10 \in 9 .. 12 /\ 32 * (10 - 1) = 288 /\ 288 + 32 = 320
        /\ 11 \in 9 .. 12 /\ 32 * (11 - 1) = 320 /\ 320 + 32 = 352
        /\ 12 \in 9 .. 12 /\ 32 * (12 - 1) = 352 /\ 352 + 32 = 384
    OBVIOUS
  <2>. HIDE DEF v
  <2>. QED BY <2>1, <2>2
<1>. HIDE DEF v, rn0, rn1, ou0, ou1
<1>6. ((((rn0 \o rn1) \o ou0) \o ou1) \o serializeMessage(em0)) \o serializeMessage(em1)
         = serializeInputs((<<signals[9], signals[10], signals[11], signals[12]>> \o em0) \o em1)
  <2>. DEFINE a == signals[9]
              b == signals[10]
              c == signals[11]
              d == signals[12]
  <2>1. a \in Nat /\ b \in Nat /\ c \in Nat /\ d \in Nat
    <3>. 9 \in 1 .. Len(signals) /\ 10 \in 1 .. Len(signals) /\ 11 \in 1 .. Len(signals)
         /\ 12 \in 1 .. Len(signals)
      BY <1>1
    <3>. QED BY ElementOfSeq
  <2>2. /\ em0 \in Seq(Nat) /\ serializeMessage(em0) = serializeInputs(em0)
        /\ em1 \in Seq(Nat) /\ serializeMessage(em1) = serializeInputs(em1)
    BY EncryptedWords
  <2>. HIDE DEF a, b, c, d
  <2>3. /\ <<a>> \in Seq(Nat) /\ <<b>> \in Seq(Nat) /\ <<c>> \in Seq(Nat) /\ <<d>> \in Seq(Nat)
        /\ <<a, b>> \in Seq(Nat) /\ <<a, b, c>> \in Seq(Nat) /\ <<a, b, c, d>> \in Seq(Nat)
    BY <2>1
  <2>4. <<a>> \o <<b>> = <<a, b>> /\ <<a, b>> \o <<c>> = <<a, b, c>>
        /\ <<a, b, c>> \o <<d>> = <<a, b, c, d>>
    BY <2>1, TwoWords, FourWords
  <2>5. serializeInputs(<<a>>) \o serializeInputs(<<b>>) = serializeInputs(<<a, b>>)
    BY <2>3, <2>4, TextOfConcat, ZenonT(60)
  <2>6. serializeInputs(<<a, b>>) \o serializeInputs(<<c>>) = serializeInputs(<<a, b, c>>)
    BY <2>3, <2>4, TextOfConcat
  <2>7. serializeInputs(<<a, b, c>>) \o serializeInputs(<<d>>) = serializeInputs(<<a, b, c, d>>)
    BY <2>3, <2>4, TextOfConcat
  <2>8. serializeInputs(<<a, b, c, d>>) \o serializeInputs(em0) = serializeInputs(<<a, b, c, d>> \o em0)
    BY <2>2, <2>3, TextOfConcat
  <2>9. <<a, b, c, d>> \o em0 \in Seq(Nat)
    BY <2>2, <2>3, ConcatProperties
  <2>10. serializeInputs(<<a, b, c, d>> \o em0) \o serializeInputs(em1)
            = serializeInputs((<<a, b, c, d>> \o em0) \o em1)
    BY <2>2, <2>9, TextOfConcat
  <2>11. rn0 = serializeInputs(<<a>>) /\ rn1 = serializeInputs(<<b>>)
         /\ ou0 = serializeInputs(<<c>>) /\ ou1 = serializeInputs(<<d>>)
    BY <1>5 DEF a, b, c, d
  <2>12. ((((rn0 \o rn1) \o ou0) \o ou1) \o serializeMessage(em0)) \o serializeMessage(em1)
            = serializeInputs((<<a, b, c, d>> \o em0) \o em1)
    BY <2>2, <2>5, <2>6, <2>7, <2>8, <2>10, <2>11
  <2>. QED BY <2>12 DEF a, b, c, d
<1>7. ProofMatches'
  BY <1>1, <1>2, <1>3 DEF ProofMatches, v
<1>8. FieldsAreSignals'
  BY <1>1, <1>2, <1>3, <1>4, <1>5 DEF FieldsAreSignals
<1>9. Executed'
  BY <1>1, <1>2, <1>3, <1>6 DEF Executed, MessageWords
<1>. QED BY <1>7, <1>8, <1>9

-----------------------------------------------------------------------------
LEMMA WordsMod ==
    ASSUME NEW words \in Seq(Nat), NEW k \in 1 .. Len(words)
    PROVE  words[k] % Power[32] \in Nat
<1>. DEFINE x == words[k]
            b == Power[32]
<1>1. x \in Int /\ b \in Nat \ {0}
  BY ElementOfSeq, PowerType
<1>. HIDE DEF x, b
<1>2. x % b \in 0 .. b - 1
  BY <1>1, Division
<1>3. x % b \in Nat
  BY <1>1, <1>2
<1>. QED BY <1>3 DEF x, b

\* One case of Learn per function.
LEMMA LearnDeposit ==
    ASSUME WireInv, IsDeposit(call), Learn
    PROVE  WalletLearns'
<1>1. PICK hash \in Nat, balance \in Nat, note \in Encrypted :
         call = [function |-> "deposit", signals |-> <<hash, balance>>, v |-> serializeInputs(<<hash>>),
                 m |-> <<serializeMessage(note)>>, payment |-> balance, em |-> <<note>>]
  BY DEF IsDeposit
<1>. DEFINE words == <<hash>> \o note
            data == deserializeMessage(result.message)
<1>2. call' = call /\ result' = result /\ result # none
  BY DEF Learn
<1>3. result.message = serializeInputs(words) /\ result.function = "deposit" /\ result.nullifiers = <<>>
  BY <1>1, <1>2 DEF WireInv, Executed, MessageWords
<1>4. result.outputs = <<bigint2buffBe(hash, 32)>>
  BY <1>1, <1>2, <1>3 DEF WireInv, FieldsAreSignals
<1>5. note \in Seq(Nat) /\ Len(note) = 5 /\ \A k \in 1 .. 5 : note[k] % Power[32] = note[k]
  BY EncryptedWords
<1>6. words \in Seq(Nat) /\ Len(words) = 6 /\ words[1] = hash /\ \A k \in 1 .. 5 : words[k + 1] = note[k]
  <2>1. <<hash>> \in Seq(Nat) /\ Len(<<hash>>) = 1 /\ <<hash>>[1] = hash
    OBVIOUS
  <2>2. /\ words \in Seq(Nat) /\ Len(words) = Len(<<hash>>) + Len(note)
        /\ \A i \in 1 .. Len(<<hash>>) + Len(note) :
              words[i] = IF i <= Len(<<hash>>) THEN <<hash>>[i] ELSE note[i - Len(<<hash>>)]
    BY <2>1, <1>5, ConcatProperties
  <2>. HIDE DEF words
  <2>3. \A i \in 1 .. 6 : words[i] = IF i <= 1 THEN <<hash>>[i] ELSE note[i - 1]
    BY <2>1, <2>2, <1>5
  <2>4. \A k \in 1 .. 5 : words[k + 1] = note[k]
    <3>. TAKE k \in 1 .. 5
    <3>1. k + 1 \in 1 .. 6 /\ ~ (k + 1 <= 1) /\ (k + 1) - 1 = k
      OBVIOUS
    <3>. QED BY <3>1, <2>3
  <2>. QED BY <2>1, <2>2, <2>3, <2>4, <1>5
<1>. HIDE DEF words
<1>7. data = [k \in 1 .. 6 |-> words[k] % Power[32]]
  <2>1. deserializeMessage(serializeInputs(words)) = [k \in 1 .. Len(words) |-> words[k] % Power[32]]
    BY <1>6, ReadMessage
  <2>. QED BY <2>1, <1>3, <1>6
<1>. HIDE DEF data
<1>8. \A k \in 1 .. 6 : words[k] % Power[32] \in Nat
  <2>. TAKE k \in 1 .. 6
  <2>1. k \in 1 .. Len(words)
    BY <1>6
  <2>. QED BY <2>1, <1>6, WordsMod
<1>9. data \in Seq(Nat) /\ Len(data) = 6 /\ data[1] = hash % Power[32]
      /\ \A k \in 1 .. 5 : data[k + 1] = note[k]
  <2>1. data \in Seq(Nat) /\ Len(data) = 6
    BY <1>7, <1>8
  <2>2. \A k \in 1 .. 5 : k + 1 \in 1 .. 6
    OBVIOUS
  <2>. QED BY <2>1, <2>2, <1>5, <1>6, <1>7
<1>10. Tail(data) = note
  <2>1. data # <<>>
    <3>1. Len(<<>>) = 0 /\ Len(data) = 6
      BY <1>9
    <3>. QED BY <3>1
  <2>2. Tail(data) \in Seq(Nat) /\ Len(Tail(data)) = Len(data) - 1
        /\ \A i \in 1 .. Len(Tail(data)) : Tail(data)[i] = data[i + 1]
    BY <2>1, <1>9, HeadTailProperties
  <2>3. Len(Tail(data)) = 5 /\ \A i \in 1 .. 5 : Tail(data)[i] = note[i]
    <3>1. Len(data) = 6 /\ \A i \in 1 .. 5 : data[i + 1] = note[i]
      BY <1>9
    <3>2. Len(Tail(data)) = 5
      BY <2>2, <3>1
    <3>. QED BY <2>2, <3>1, <3>2
  <2>. QED BY <2>2, <2>3, <1>5, SeqEqual
<1>11. buff2bigintBe(bigint2buffBe(hash, 32)) = hash % Power[32]
  BY RoundTrip
<1>12. learnt' = [function |-> "deposit", nullifiers |-> <<>>, utxos |-> <<data[1]>>, em |-> <<Tail(data)>>]
  BY <1>9 DEF Learn, data
<1>13. learnt'.nullifiers = [k \in DOMAIN result.nullifiers |-> buff2bigintBe(result.nullifiers[k])]
  BY <1>3, <1>12
<1>14. learnt'.utxos = [k \in DOMAIN result.outputs |-> buff2bigintBe(result.outputs[k])]
  <2>1. learnt'.utxos = <<hash % Power[32]>>
    BY <1>9, <1>12
  <2>2. [k \in DOMAIN result.outputs |-> buff2bigintBe(result.outputs[k])] = <<hash % Power[32]>>
    BY <1>4, <1>11
  <2>. QED BY <2>1, <2>2
<1>. QED BY <1>1, <1>2, <1>10, <1>12, <1>13, <1>14 DEF WalletLearns

LEMMA LearnWithdrawal ==
    ASSUME WireInv, IsWithdrawal(call), Learn
    PROVE  WalletLearns'
<1>1. PICK signals \in Seq(Nat) :
         /\ Len(signals) = 11
         /\ call = [function |-> "withdrawal", signals |-> signals, v |-> serializeInputs(signals),
                    m |-> <<>>, payment |-> 0, em |-> <<>>]
  BY DEF IsWithdrawal
<1>. DEFINE x == signals[9]
            data == deserializeMessage(result.message)
<1>2. call' = call /\ result' = result /\ result # none
  BY DEF Learn
<1>3. result.message = serializeInputs(<<x>>) /\ result.function = "withdrawal" /\ result.outputs = <<>>
  BY <1>1, <1>2 DEF WireInv, Executed, MessageWords
<1>4. result.nullifiers = <<bigint2buffBe(x, 32)>>
  BY <1>1, <1>2, <1>3 DEF WireInv, FieldsAreSignals
<1>5. x \in Nat
  <2>. 9 \in 1 .. Len(signals)
    BY <1>1
  <2>. QED BY ElementOfSeq
<1>. HIDE DEF x
<1>6. data = <<x % Power[32]>>
  <2>1. <<x>> \in Seq(Nat) /\ Len(<<x>>) = 1 /\ <<x>>[1] = x
    BY <1>5
  <2>2. data = [k \in 1 .. Len(<<x>>) |-> <<x>>[k] % Power[32]]
    BY <2>1, <1>3, ReadMessage
  <2>. HIDE DEF data
  <2>3. data = [k \in 1 .. 1 |-> <<x>>[k] % Power[32]]
    BY <2>1, <2>2
  <2>. QED BY <2>1, <2>3
<1>7. buff2bigintBe(bigint2buffBe(x, 32)) = x % Power[32]
  BY <1>5, RoundTrip
<1>. HIDE DEF data
<1>8. Len(data) = 1
  BY <1>6
<1>9. learnt' = [function |-> "withdrawal", nullifiers |-> data, utxos |-> <<>>, em |-> <<>>]
  BY <1>8 DEF Learn, data
<1>. QED BY <1>1, <1>2, <1>3, <1>4, <1>6, <1>7, <1>9 DEF WalletLearns

LEMMA LearnTransfer ==
    ASSUME WireInv, IsTransfer(call), Learn
    PROVE  WalletLearns'
<1>1. PICK signals \in Seq(Nat), em0 \in Encrypted, em1 \in Encrypted :
         /\ Len(signals) = 12
         /\ call = [function |-> "transfer", signals |-> signals, v |-> serializeInputs(signals),
                    m |-> <<serializeMessage(em0), serializeMessage(em1)>>, payment |-> 0,
                    em |-> <<em0, em1>>]
  BY DEF IsTransfer
<1>. DEFINE fields == <<signals[9], signals[10], signals[11], signals[12]>>
            start == fields \o em0
            words == start \o em1
            data == deserializeMessage(result.message)
<1>2. call' = call /\ result' = result /\ result # none
  BY DEF Learn
<1>3. result.message = serializeInputs(words) /\ result.function = "transfer"
  BY <1>1, <1>2 DEF WireInv, Executed, MessageWords
<1>4. result.nullifiers = <<bigint2buffBe(signals[9], 32), bigint2buffBe(signals[10], 32)>>
      /\ result.outputs = <<bigint2buffBe(signals[11], 32), bigint2buffBe(signals[12], 32)>>
  BY <1>1, <1>2, <1>3 DEF WireInv, FieldsAreSignals
<1>5. /\ em0 \in Seq(Nat) /\ Len(em0) = 5 /\ \A k \in 1 .. 5 : em0[k] % Power[32] = em0[k]
      /\ em1 \in Seq(Nat) /\ Len(em1) = 5 /\ \A k \in 1 .. 5 : em1[k] % Power[32] = em1[k]
  BY EncryptedWords
<1>6. \A k \in 9 .. 12 : signals[k] \in Nat
  <2>. TAKE k \in 9 .. 12
  <2>1. k \in 1 .. Len(signals)
    BY <1>1
  <2>. QED BY <2>1, ElementOfSeq
<1>7. fields \in Seq(Nat) /\ Len(fields) = 4 /\ fields[1] = signals[9] /\ fields[2] = signals[10]
      /\ fields[3] = signals[11] /\ fields[4] = signals[12]
  BY <1>6
<1>. HIDE DEF fields
<1>8. /\ start \in Seq(Nat) /\ Len(start) = 9
      /\ \A i \in 1 .. 9 : start[i] = IF i <= 4 THEN fields[i] ELSE em0[i - 4]
  <2>1. /\ start \in Seq(Nat) /\ Len(start) = Len(fields) + Len(em0)
        /\ \A i \in 1 .. Len(fields) + Len(em0) :
              start[i] = IF i <= Len(fields) THEN fields[i] ELSE em0[i - Len(fields)]
    BY <1>5, <1>7, ConcatProperties
  <2>. HIDE DEF start
  <2>. QED BY <2>1, <1>5, <1>7
<1>. HIDE DEF start
<1>9. /\ words \in Seq(Nat) /\ Len(words) = 14
      /\ \A i \in 1 .. 14 : words[i] = IF i <= 9 THEN start[i] ELSE em1[i - 9]
  <2>1. /\ words \in Seq(Nat) /\ Len(words) = Len(start) + Len(em1)
        /\ \A i \in 1 .. Len(start) + Len(em1) :
              words[i] = IF i <= Len(start) THEN start[i] ELSE em1[i - Len(start)]
    BY <1>5, <1>8, ConcatProperties
  <2>. HIDE DEF words
  <2>. QED BY <2>1, <1>5, <1>8
<1>. HIDE DEF words
<1>10. data = [k \in 1 .. 14 |-> words[k] % Power[32]]
  <2>1. deserializeMessage(serializeInputs(words)) = [k \in 1 .. Len(words) |-> words[k] % Power[32]]
    BY <1>9, ReadMessage
  <2>. QED BY <2>1, <1>3, <1>9
<1>. HIDE DEF data
<1>11. \A k \in 1 .. 14 : words[k] % Power[32] \in Nat
  <2>. TAKE k \in 1 .. 14
  <2>1. k \in 1 .. Len(words)
    BY <1>9
  <2>. QED BY <2>1, <1>9, WordsMod
<1>12. data \in Seq(Nat) /\ Len(data) = 14
  BY <1>10, <1>11
<1>13. \A i \in 1 .. 14 : data[i] \in Nat
  BY <1>12, ElementOfSeq
<1>14. /\ data[1] = signals[9] % Power[32] /\ data[2] = signals[10] % Power[32]
       /\ data[3] = signals[11] % Power[32] /\ data[4] = signals[12] % Power[32]
  <2>1. \A k \in 1 .. 4 : data[k] = fields[k] % Power[32]
    <3>. TAKE k \in 1 .. 4
    <3>1. k \in 1 .. 9 /\ k \in 1 .. 14 /\ k <= 9 /\ k <= 4
      OBVIOUS
    <3>. QED BY <3>1, <1>8, <1>9, <1>10
  <2>2. 1 \in 1 .. 4 /\ 2 \in 1 .. 4 /\ 3 \in 1 .. 4 /\ 4 \in 1 .. 4
    OBVIOUS
  <2>. QED BY <2>1, <2>2, <1>7
<1>15. \A k \in 1 .. 5 : data[5 + k - 1] = em0[k] /\ data[10 + k - 1] = em1[k]
  <2>. TAKE k \in 1 .. 5
  <2>1. /\ 5 + k - 1 \in 1 .. 9 /\ 5 + k - 1 \in 1 .. 14 /\ ~ (5 + k - 1 <= 4) /\ (5 + k - 1) - 4 = k
        /\ 5 + k - 1 <= 9
        /\ 10 + k - 1 \in 1 .. 14 /\ ~ (10 + k - 1 <= 9) /\ (10 + k - 1) - 9 = k
    OBVIOUS
  <2>2. words[5 + k - 1] = em0[k] /\ words[10 + k - 1] = em1[k]
    BY <2>1, <1>8, <1>9
  <2>. QED BY <2>1, <2>2, <1>5, <1>10
<1>16. SubSeq(data, 5, 9) = em0 /\ SubSeq(data, 10, 14) = em1
  <2>1. \A i \in 5 .. 9 : data[i] \in Nat
    <3>. TAKE i \in 5 .. 9
    <3>1. i \in 1 .. 14
      OBVIOUS
    <3>. QED BY <3>1, <1>13
  <2>2. \A i \in 10 .. 14 : data[i] \in Nat
    <3>. TAKE i \in 10 .. 14
    <3>1. i \in 1 .. 14
      OBVIOUS
    <3>. QED BY <3>1, <1>13
  <2>3. /\ SubSeq(data, 5, 9) \in Seq(Nat)
        /\ Len(SubSeq(data, 5, 9)) = IF 5 <= 9 THEN 9 - 5 + 1 ELSE 0
        /\ \A i \in 1 .. 9 - 5 + 1 : SubSeq(data, 5, 9)[i] = data[5 + i - 1]
    BY <2>1, SubSeqProperties
  <2>4. /\ SubSeq(data, 10, 14) \in Seq(Nat)
        /\ Len(SubSeq(data, 10, 14)) = IF 10 <= 14 THEN 14 - 10 + 1 ELSE 0
        /\ \A i \in 1 .. 14 - 10 + 1 : SubSeq(data, 10, 14)[i] = data[10 + i - 1]
    BY <2>2, SubSeqProperties
  <2>5. Len(SubSeq(data, 5, 9)) = 5 /\ \A i \in 1 .. 5 : SubSeq(data, 5, 9)[i] = em0[i]
    BY <2>3, <1>15
  <2>6. Len(SubSeq(data, 10, 14)) = 5 /\ \A i \in 1 .. 5 : SubSeq(data, 10, 14)[i] = em1[i]
    BY <2>4, <1>15
  <2>7. SubSeq(data, 5, 9) = em0
    BY <2>3, <2>5, <1>5, SeqEqual
  <2>8. SubSeq(data, 10, 14) = em1
    BY <2>4, <2>6, <1>5, SeqEqual, SMTT(40)
  <2>. QED BY <2>7, <2>8
<1>17. SubSeq(data, 1, 2) = <<data[1], data[2]>> /\ SubSeq(data, 3, 4) = <<data[3], data[4]>>
  <2>1. data[1] \in Nat /\ data[2] \in Nat /\ data[3] \in Nat /\ data[4] \in Nat
    BY <1>13
  <2>2. \A i \in 1 .. 2 : data[i] \in Nat
    <3>. TAKE i \in 1 .. 2
    <3>1. i \in 1 .. 14
      OBVIOUS
    <3>. QED BY <3>1, <1>13
  <2>3. \A i \in 3 .. 4 : data[i] \in Nat
    <3>. TAKE i \in 3 .. 4
    <3>1. i \in 1 .. 14
      OBVIOUS
    <3>. QED BY <3>1, <1>13
  <2>4. /\ SubSeq(data, 1, 2) \in Seq(Nat)
        /\ Len(SubSeq(data, 1, 2)) = IF 1 <= 2 THEN 2 - 1 + 1 ELSE 0
        /\ \A i \in 1 .. 2 - 1 + 1 : SubSeq(data, 1, 2)[i] = data[1 + i - 1]
    BY <2>2, SubSeqProperties
  <2>5. /\ SubSeq(data, 3, 4) \in Seq(Nat)
        /\ Len(SubSeq(data, 3, 4)) = IF 3 <= 4 THEN 4 - 3 + 1 ELSE 0
        /\ \A i \in 1 .. 4 - 3 + 1 : SubSeq(data, 3, 4)[i] = data[3 + i - 1]
    BY <2>3, SubSeqProperties
  <2>6. <<data[1], data[2]>> \in Seq(Nat) /\ Len(<<data[1], data[2]>>) = 2
        /\ \A i \in 1 .. 2 : <<data[1], data[2]>>[i] = data[i]
    BY <2>1
  <2>7. <<data[3], data[4]>> \in Seq(Nat) /\ Len(<<data[3], data[4]>>) = 2
        /\ \A i \in 1 .. 2 : <<data[3], data[4]>>[i] = data[3 + i - 1]
    BY <2>1
  <2>8. Len(SubSeq(data, 1, 2)) = 2 /\ \A i \in 1 .. 2 : SubSeq(data, 1, 2)[i] = data[i]
    BY <2>4
  <2>9. Len(SubSeq(data, 3, 4)) = 2 /\ \A i \in 1 .. 2 : SubSeq(data, 3, 4)[i] = data[3 + i - 1]
    BY <2>5
  <2>10. SubSeq(data, 1, 2) = <<data[1], data[2]>>
    <3>1. \A i \in 1 .. Len(SubSeq(data, 1, 2)) : SubSeq(data, 1, 2)[i] = <<data[1], data[2]>>[i]
      BY <2>6, <2>8
    <3>. QED BY <3>1, <2>4, <2>6, <2>8, SeqEqual
  <2>11. SubSeq(data, 3, 4) = <<data[3], data[4]>>
    <3>1. \A i \in 1 .. Len(SubSeq(data, 3, 4)) : SubSeq(data, 3, 4)[i] = <<data[3], data[4]>>[i]
      BY <2>7, <2>9
    <3>. QED BY <3>1, <2>5, <2>7, <2>9, SeqEqual
  <2>. QED BY <2>10, <2>11
<1>18. \A k \in 9 .. 12 : buff2bigintBe(bigint2buffBe(signals[k], 32)) = signals[k] % Power[32]
  BY <1>6, RoundTrip
<1>19. learnt' = [function |-> "transfer", nullifiers |-> SubSeq(data, 1, 2),
                  utxos |-> SubSeq(data, 3, 4), em |-> <<em0, em1>>]
  <2>1. encryptedOf(data) = <<em0, em1>>
    BY <1>16 DEF encryptedOf
  <2>. QED BY <2>1, <1>12 DEF Learn, data
<1>20. 9 \in 9 .. 12 /\ 10 \in 9 .. 12 /\ 11 \in 9 .. 12 /\ 12 \in 9 .. 12
  OBVIOUS
<1>21. learnt'.nullifiers = [k \in DOMAIN result.nullifiers |-> buff2bigintBe(result.nullifiers[k])]
  BY <1>4, <1>14, <1>17, <1>18, <1>19, <1>20
<1>22. learnt'.utxos = [k \in DOMAIN result.outputs |-> buff2bigintBe(result.outputs[k])]
  BY <1>4, <1>14, <1>17, <1>18, <1>19, <1>20
<1>. QED BY <1>1, <1>2, <1>19, <1>21, <1>22 DEF WalletLearns

-----------------------------------------------------------------------------
LEMMA WireStart == WireInit => WireInv
BY DEF WireInit, WireInv, Calls, Executed, ProofMatches, FieldsAreSignals, WalletLearns, none

\* While nothing has been executed there is nothing to say but for the call.
LEMMA NothingYet ==
    ASSUME WireInv, call = none
    PROVE  result = none /\ learnt = none
BY DEF WireInv, Executed

LEMMA FirstCall ==
    ASSUME WireInv, call = none, UNCHANGED <<result, learnt>>,
           IsDeposit(call') \/ IsWithdrawal(call') \/ IsTransfer(call')
    PROVE  WireInv'
<1>1. result' = none /\ learnt' = none
  BY NothingYet
<1>2. Calls'
  <2>1. IsDeposit(call') = IsDeposit(call)' /\ IsWithdrawal(call') = IsWithdrawal(call)'
        /\ IsTransfer(call') = IsTransfer(call)'
    BY DEF IsDeposit, IsWithdrawal, IsTransfer
  <2>. QED BY DEF Calls
<1>. QED BY <1>1, <1>2 DEF WireInv, Executed, ProofMatches, FieldsAreSignals, WalletLearns

LEMMA ExecuteKeeps ==
    ASSUME WireInv, Execute PROVE WireInv'
<1>1. call' = call /\ learnt' = learnt /\ call # none /\ result = none
  BY DEF Execute
<1>2. Calls' /\ learnt = none
  BY <1>1 DEF WireInv, Calls, IsDeposit, IsWithdrawal, IsTransfer
<1>3. ProofMatches' /\ FieldsAreSignals' /\ Executed'
  BY <1>1, ExecuteDeposit, ExecuteWithdrawal, ExecuteTransfer DEF WireInv, Calls
<1>. QED BY <1>1, <1>2, <1>3 DEF WireInv, WalletLearns

LEMMA LearnKeeps ==
    ASSUME WireInv, Learn PROVE WireInv'
<1>1. call' = call /\ result' = result /\ result # none
  BY DEF Learn
<1>2. Calls' /\ ProofMatches' /\ FieldsAreSignals' /\ Executed'
  BY <1>1 DEF WireInv, Calls, IsDeposit, IsWithdrawal, IsTransfer, ProofMatches, FieldsAreSignals,
              Executed, MessageWords
<1>3. WalletLearns'
  <2>1. call # none
    BY <1>1 DEF WireInv, Executed
  <2>. QED BY <2>1, LearnDeposit, LearnWithdrawal, LearnTransfer DEF WireInv, Calls
<1>. QED BY <1>1, <1>2, <1>3 DEF WireInv

LEMMA WireStep == WireInv /\ [WireNext]_wireVars => WireInv'
<1>. SUFFICES ASSUME WireInv, [WireNext]_wireVars PROVE WireInv'
  OBVIOUS
<1>1. CASE deposit
  <2>1. call = none /\ UNCHANGED <<result, learnt>>
    BY <1>1 DEF deposit
  <2>. QED BY <1>1, <2>1, DepositCall, FirstCall
<1>2. CASE withdrawal
  <2>1. call = none /\ UNCHANGED <<result, learnt>>
    BY <1>2 DEF withdrawal
  <2>. QED BY <1>2, <2>1, WithdrawalCall, FirstCall
<1>3. CASE transfer
  <2>1. call = none /\ UNCHANGED <<result, learnt>>
    BY <1>3 DEF transfer
  <2>. QED BY <1>3, <2>1, TransferCall, FirstCall
<1>4. CASE Execute
  BY <1>4, ExecuteKeeps
<1>5. CASE Learn
  BY <1>5, LearnKeeps
<1>6. CASE UNCHANGED wireVars
  BY <1>6 DEF wireVars, WireInv, Calls, IsDeposit, IsWithdrawal, IsTransfer, ProofMatches,
              FieldsAreSignals, Executed, MessageWords, WalletLearns
<1>. QED BY <1>1, <1>2, <1>3, <1>4, <1>5, <1>6 DEF WireNext

LEMMA WireInvariant == WireSpec => []WireInv
BY WireStart, WireStep, PTL DEF WireSpec

\* The bytes that bn256Groth16Verify gets are those of the public signals of
\* the proof, also for a deposit, whose balance the contract writes itself.
THEOREM ProofMatchesAlways == WireSpec => []ProofMatches
<1>1. WireInv => ProofMatches
  BY DEF WireInv
<1>. QED BY <1>1, WireInvariant, PTL

\* The take and takeRight of the contract cut exactly the signals out of v, in
\* their roles; below 2^63 the amount it pays is the amount that was proved.
THEOREM FieldsAreSignalsAlways == WireSpec => []FieldsAreSignals
<1>1. WireInv => FieldsAreSignals
  BY DEF WireInv
<1>. QED BY <1>1, WireInvariant, PTL

\* syncData() tells the kinds of messages apart and gets out of each one what
\* the contract wrote: the nullifiers, the new hashes and the encrypted notes.
THEOREM WalletLearnsAlways == WireSpec => []WalletLearns
<1>1. WireInv => WalletLearns
  BY DEF WireInv
<1>. QED BY <1>1, WireInvariant, PTL

-----------------------------------------------------------------------------
LEMMA AffineIsMod ==
    ASSUME NEW x \in Int, NEW m \in Nat \ {0}
    PROVE  affine(x, m) = x % m /\ affine(x, m) \in 0 .. m - 1
<1>. DEFINE r == x % m
<1>1. r \in 0 .. m - 1 /\ m * 1 = m
  BY Division
<1>2. ASSUME NEW s \in 0 .. m - 1 PROVE (s + m) % m = s
  <2>. DEFINE j == s + m
  <2>1. j = m * 1 + s /\ 1 \in Int
    BY <1>2, <1>1
  <2>. HIDE DEF j
  <2>2. j % m = s
    BY <2>1, Place
  <2>. QED BY <2>2 DEF j
<1>3. CASE x >= 0
  <2>1. rem(x, m) = r
    BY <1>3 DEF rem
  <2>2. r + m >= 0
    BY <1>1
  <2>. HIDE DEF r
  <2>3. rem(r + m, m) = (r + m) % m
    BY <2>2 DEF rem
  <2>. QED BY <2>1, <2>3, <1>1, <1>2 DEF affine, r
<1>4. CASE x < 0
  <2>. DEFINE y == -x
              s == y % m
              q == y \div m
  <2>1. y \in Nat /\ y \in Int
    BY <1>4
  <2>2. q \in Int /\ s \in 0 .. m - 1 /\ y = m * q + s
    BY <2>1, Division
  <2>3. rem(x, m) = -s
    BY <1>4 DEF rem
  <2>. HIDE DEF y, s, q, r
  <2>4. x = -y
    BY <2>1 DEF y
  <2>5. -s + m >= 0
    BY <2>2
  <2>6. rem(-s + m, m) = (-s + m) % m
    BY <2>5 DEF rem
  <2>7. affine(x, m) = (-s + m) % m
    BY <2>3, <2>6 DEF affine
  <2>8. CASE s = 0
    <3>1. -s + m = 0 + m /\ 0 \in 0 .. m - 1
      BY <2>8, <1>1
    <3>2. (0 + m) % m = 0
      BY <3>1, <1>2
    <3>3. x = m * (-q) + 0 /\ -q \in Int
      BY <2>2, <2>4, <2>8
    <3>. DEFINE p == -q
    <3>4. x = m * p + 0 /\ p \in Int
      BY <3>3
    <3>. HIDE DEF p
    <3>5. x % m = 0
      BY <3>1, <3>4, Place
    <3>. QED BY <2>7, <3>1, <3>2, <3>5
  <2>9. CASE s # 0
    <3>. DEFINE t == -s + m
                p == -q - 1
    <3>1. t \in 0 .. m - 1 /\ p \in Int
      BY <2>2, <2>9
    <3>2. x = m * p + t
      <4>1. m * (-q - 1) = -(m * q) - m
        BY <2>2
      <4>2. m * q \in Int
        BY <2>2
      <4>. QED BY <4>1, <4>2, <2>2, <2>4
    <3>. HIDE DEF t, p
    <3>3. x % m = t
      BY <3>1, <3>2, Place
    <3>4. t % m = t
      BY <3>1, FirstPlace
    <3>. QED BY <2>7, <3>1, <3>3, <3>4 DEF t
  <2>. QED BY <2>8, <2>9
<1>. QED BY <1>3, <1>4

\* The mask that was added is taken away.
LEMMA MaskCancels ==
    ASSUME NEW m \in Nat \ {0}, NEW x \in 0 .. m - 1, NEW c \in Int
    PROVE  affine(affine(x + c, m) - c, m) = x
<1>. DEFINE y == x + c
            q == y \div m
            r == y % m
            z == r - c
<1>1. y \in Int /\ x \in Int
  OBVIOUS
<1>2. q \in Int /\ r \in 0 .. m - 1 /\ y = m * q + r
  BY <1>1, Division
<1>3. affine(y, m) = r
  BY <1>1, AffineIsMod
<1>4. z \in Int /\ z = m * (-q) + x /\ -q \in Int
  <2>1. m * (-q) = -(m * q) /\ m * q \in Int
    BY <1>2
  <2>. HIDE DEF q, r
  <2>. QED BY <2>1, <1>1, <1>2
<1>. HIDE DEF r
<1>5. affine(z, m) = z % m
  BY <1>4, AffineIsMod
<1>6. z % m = x
  <2>. DEFINE p == -q
  <2>1. z = m * p + x /\ p \in Int
    BY <1>4
  <2>. HIDE DEF p, z
  <2>. QED BY <2>1, Place
<1>. QED BY <1>3, <1>5, <1>6

-----------------------------------------------------------------------------
\* The neutral element.
O == <<0, 1>>

LEMMA CurveLaws ==
    /\ O \in curve /\ G \in curve
    /\ \A p \in curve : \A q \in curve : add(p, q) \in curve /\ add(p, q) = add(q, p)
    /\ \A p \in curve : \A q \in curve : \A r \in curve : add(add(p, q), r) = add(p, add(q, r))
    /\ \A p \in curve : add(O, p) = p /\ add(p, O) = p
    /\ \A p \in curve : add(p, <<affine(-p[1], Q), p[2]>>) = O
<1>. DEFINE sum == [p \in curve |-> [q \in curve |-> add(p, q)]]
<1>1. /\ G \in curve /\ O \in curve
      /\ sum \in [curve -> [curve -> curve]]
      /\ \A p \in curve : sum[O][p] = p
      /\ \A p \in curve : add(p, <<affine(-p[1], Q), p[2]>>) = O
      /\ \A p \in curve : \A q \in curve : sum[p][q] = sum[q][p]
      /\ \A p \in curve : \A q \in curve : \A r \in curve : sum[sum[p][q]][r] = sum[p][sum[q][r]]
  BY GroupAssumption DEF O
<1>2. \A p \in curve : \A q \in curve : sum[p][q] = add(p, q)
  OBVIOUS
<1>. HIDE DEF sum
<1>3. \A p \in curve : \A q \in curve : add(p, q) \in curve /\ add(p, q) = add(q, p)
  BY <1>1, <1>2
<1>4. \A p \in curve : \A q \in curve : \A r \in curve : add(add(p, q), r) = add(p, add(q, r))
  <2>. TAKE p \in curve
  <2>. TAKE q \in curve
  <2>. TAKE r \in curve
  <2>1. sum[p][q] = add(p, q) /\ sum[q][r] = add(q, r) /\ add(p, q) \in curve /\ add(q, r) \in curve
    BY <1>2, <1>3
  <2>2. sum[add(p, q)][r] = add(add(p, q), r) /\ sum[p][add(q, r)] = add(p, add(q, r))
    BY <1>2, <2>1
  <2>. QED BY <1>1, <2>1, <2>2
<1>5. \A p \in curve : add(O, p) = p
  BY <1>1, <1>2
<1>. QED BY <1>1, <1>3, <1>4, <1>5

LEMMA Closed ==
    ASSUME NEW p \in curve, NEW q \in curve
    PROVE  add(p, q) \in curve /\ add(p, q) = add(q, p)
BY CurveLaws

LEMMA Associative ==
    ASSUME NEW p \in curve, NEW q \in curve, NEW r \in curve
    PROVE  add(add(p, q), r) = add(p, add(q, r))
BY CurveLaws

\* The multiples of a point: 0 * a, 1 * a, 2 * a ...
Multiple(a) == CHOOSE g : IsIteration(g, curve, O, [x \in curve |-> add(x, a)])

LEMMA MultipleStep ==
    ASSUME NEW a \in curve
    PROVE  /\ Multiple(a)[0] = O
           /\ \A n \in Nat : Multiple(a)[n] \in curve
           /\ \A n \in Nat : Multiple(a)[n + 1] = add(Multiple(a)[n], a)
<1>. DEFINE F == [x \in curve |-> add(x, a)]
            g == Multiple(a)
<1>1. F \in [curve -> curve] /\ O \in curve
  BY CurveLaws
<1>. HIDE DEF F
<1>2. \E h : IsIteration(h, curve, O, F)
  BY <1>1, Iteration
<1>3. IsIteration(g, curve, O, F)
  BY <1>2 DEF Multiple, F
<1>. HIDE DEF g
<1>4. g \in [Nat -> curve] /\ \A n \in Nat : g[n] = IF n = 0 THEN O ELSE F[g[n - 1]]
  BY <1>3 DEF IsIteration
<1>5. ASSUME NEW n \in Nat PROVE g[n + 1] = add(g[n], a)
  <2>1. n + 1 \in Nat /\ n + 1 # 0 /\ (n + 1) - 1 = n
    OBVIOUS
  <2>2. g[n + 1] = F[g[n]]
    BY <1>4, <2>1
  <2>3. g[n] \in curve
    BY <1>4
  <2>. QED BY <2>2, <2>3 DEF F
<1>6. g[0] = O /\ \A n \in Nat : g[n] \in curve
  BY <1>4
<1>. QED BY <1>5, <1>6 DEF g

LEMMA MultipleSum ==
    ASSUME NEW a \in curve, NEW m \in Nat
    PROVE  \A n \in Nat : Multiple(a)[m + n] = add(Multiple(a)[m], Multiple(a)[n])
<1>. DEFINE g == Multiple(a)
            H == {n \in Nat : g[m + n] = add(g[m], g[n])}
<1>1. /\ g[0] = O /\ \A n \in Nat : g[n] \in curve
      /\ \A n \in Nat : g[n + 1] = add(g[n], a)
  BY MultipleStep
<1>. HIDE DEF g
<1>2. 0 \in H
  <2>1. m + 0 = m
    OBVIOUS
  <2>. QED BY <2>1, <1>1, CurveLaws
<1>3. ASSUME NEW n \in H PROVE n + 1 \in H
  <2>1. n \in Nat /\ m + n \in Nat /\ m + (n + 1) = (m + n) + 1 /\ n + 1 \in Nat
    OBVIOUS
  <2>2. g[m + (n + 1)] = add(add(g[m], g[n]), a)
    BY <2>1, <1>1
  <2>3. g[n + 1] = add(g[n], a) /\ g[m] \in curve /\ g[n] \in curve
    BY <2>1, <1>1
  <2>4. add(add(g[m], g[n]), a) = add(g[m], add(g[n], a))
    BY <2>3, Associative
  <2>. QED BY <2>1, <2>2, <2>3, <2>4
<1>4. H = Nat
  <2>1. H \in SUBSET Nat
    OBVIOUS
  <2>. HIDE DEF H
  <2>. QED BY <2>1, <1>2, <1>3, Induction
<1>. QED BY <1>4 DEF g

LEMMA MultipleOfMultiple ==
    ASSUME NEW a \in curve, NEW m \in Nat
    PROVE  \A n \in Nat : Multiple(Multiple(a)[m])[n] = Multiple(a)[m * n]
<1>. DEFINE g == Multiple(a)
            h == Multiple(g[m])
            H == {n \in Nat : h[n] = g[m * n]}
<1>1. /\ g[0] = O /\ \A n \in Nat : g[n] \in curve
      /\ \A n \in Nat : g[m + n] = add(g[m], g[n])
  BY MultipleStep, MultipleSum
<1>. HIDE DEF g
<1>2. /\ h[0] = O /\ \A n \in Nat : h[n] \in curve
      /\ \A n \in Nat : h[n + 1] = add(h[n], g[m])
  BY <1>1, MultipleStep
<1>. HIDE DEF h
<1>3. 0 \in H
  <2>1. m * 0 = 0
    OBVIOUS
  <2>. QED BY <2>1, <1>1, <1>2
<1>4. ASSUME NEW n \in H PROVE n + 1 \in H
  <2>1. n \in Nat /\ m * n \in Nat /\ m * (n + 1) = m + m * n /\ n + 1 \in Nat
    OBVIOUS
  <2>2. h[n + 1] = add(g[m * n], g[m])
    BY <2>1, <1>2
  <2>3. g[m + m * n] = add(g[m], g[m * n]) /\ g[m] \in curve /\ g[m * n] \in curve
    BY <2>1, <1>1
  <2>4. add(g[m], g[m * n]) = add(g[m * n], g[m])
    BY <2>3, Closed
  <2>. QED BY <2>1, <2>2, <2>3, <2>4
<1>5. H = Nat
  <2>1. H \in SUBSET Nat
    OBVIOUS
  <2>. HIDE DEF H
  <2>. QED BY <2>1, <1>3, <1>4, Induction
<1>. QED BY <1>5 DEF g, h

LEMMA MultipleDouble ==
    ASSUME NEW a \in curve, NEW n \in Nat
    PROVE  /\ add(a, a) \in curve /\ Multiple(add(a, a))[n] = Multiple(a)[2 * n]
           /\ Multiple(a)[2 * n + 1] = add(a, Multiple(add(a, a))[n])
<1>. DEFINE g == Multiple(a)
<1>1. /\ g[0] = O /\ g[0 + 1] = add(g[0], a) /\ g[1 + 1] = add(g[1], a)
      /\ 2 * n \in Nat /\ g[2 * n + 1] = add(g[2 * n], a) /\ g[2 * n] \in curve
  <2>. 0 \in Nat /\ 1 \in Nat /\ 2 * n \in Nat
    OBVIOUS
  <2>. QED BY MultipleStep
<1>2. Multiple(g[2])[n] = g[2 * n]
  <2>. 2 \in Nat
    OBVIOUS
  <2>. QED BY MultipleOfMultiple
<1>. HIDE DEF g
<1>3. g[2] = add(a, a)
  <2>1. 0 + 1 = 1 /\ 1 + 1 = 2
    OBVIOUS
  <2>2. g[1] = a
    BY <2>1, <1>1, CurveLaws
  <2>. QED BY <2>1, <2>2, <1>1
<1>4. add(a, a) \in curve /\ add(g[2 * n], a) = add(a, g[2 * n])
  BY <1>1, Closed
<1>. QED BY <1>1, <1>2, <1>3, <1>4 DEF g

\* The recursion of mul: double and add.
Doubling(g) ==
    g = [b \in Nat |->
            [a \in curve |->
                IF b = 0 THEN <<0, 1>>
                ELSE LET rest == g[b \div 2][add(a, a)]
                     IN  IF b % 2 = 0 THEN rest ELSE add(a, rest)]]

LEMMA DoublingAt ==
    ASSUME NEW g, Doubling(g), NEW a \in curve, NEW b \in Nat
    PROVE  g[b][a] = IF b = 0 THEN O
                     ELSE IF b % 2 = 0 THEN g[b \div 2][add(a, a)] ELSE add(a, g[b \div 2][add(a, a)])
<1>1. g[b] = [x \in curve |->
                IF b = 0 THEN <<0, 1>>
                ELSE LET rest == g[b \div 2][add(x, x)]
                     IN  IF b % 2 = 0 THEN rest ELSE add(x, rest)]
  BY DEF Doubling
<1>. QED BY <1>1 DEF O

LEMMA Half ==
    ASSUME NEW b \in Nat
    PROVE  /\ b \div 2 \in Nat /\ (b # 0 => b \div 2 < b)
           /\ b % 2 = 0 => b = 2 * (b \div 2)
           /\ b % 2 # 0 => b = 2 * (b \div 2) + 1
OBVIOUS

LEMMA MultipleHalf ==
    ASSUME NEW a \in curve, NEW b \in Nat
    PROVE  /\ b % 2 = 0 => Multiple(a)[b] = Multiple(add(a, a))[b \div 2]
           /\ b % 2 # 0 => Multiple(a)[b] = add(a, Multiple(add(a, a))[b \div 2])
<1>. DEFINE n == b \div 2
<1>1. n \in Nat /\ (b % 2 = 0 => b = 2 * n) /\ (b % 2 # 0 => b = 2 * n + 1)
  BY Half
<1>. HIDE DEF n
<1>. QED BY <1>1, MultipleDouble, SMTT(40) DEF n

LEMMA DoublingExists == \E g : Doubling(g)
<1>. DEFINE g == [b \in Nat |-> [a \in curve |-> Multiple(a)[b]]]
<1>1. \A a \in curve : \A b \in Nat : g[b][a] = Multiple(a)[b]
  OBVIOUS
<1>2. ASSUME NEW a \in curve, NEW b \in Nat
      PROVE  Multiple(a)[b] = IF b = 0 THEN <<0, 1>>
                           ELSE LET rest == g[b \div 2][add(a, a)]
                                IN  IF b % 2 = 0 THEN rest ELSE add(a, rest)
  <2>1. add(a, a) \in curve /\ b \div 2 \in Nat
    BY Closed, Half
  <2>. HIDE DEF g
  <2>2. g[b \div 2][add(a, a)] = Multiple(add(a, a))[b \div 2]
    BY <1>1, <2>1
  <2>3. Multiple(a)[0] = <<0, 1>>
    BY MultipleStep DEF O
  <2>4. CASE b = 0
    BY <2>3, <2>4
  <2>5. CASE b # 0
    BY <2>2, <2>5, MultipleHalf
  <2>. QED BY <2>4, <2>5
<1>3. Doubling(g)
  <2>. DEFINE body(b) == [a \in curve |->
                IF b = 0 THEN <<0, 1>>
                ELSE LET rest == g[b \div 2][add(a, a)]
                     IN  IF b % 2 = 0 THEN rest ELSE add(a, rest)]
  <2>1. ASSUME NEW b \in Nat PROVE g[b] = body(b)
    <3>1. g[b] = [a \in curve |-> Multiple(a)[b]]
      OBVIOUS
    <3>. HIDE DEF g
    <3>. QED BY <3>1, <1>2
  <2>2. g = [b \in Nat |-> g[b]]
    OBVIOUS
  <2>. HIDE DEF g
  <2>3. g = [b \in Nat |-> body(b)]
    BY <2>1, <2>2
  <2>. QED BY <2>3 DEF Doubling
<1>. QED BY <1>3

LEMMA DoublingIsMultiple ==
    ASSUME NEW g, Doubling(g)
    PROVE  \A b \in Nat : \A a \in curve : g[b][a] = Multiple(a)[b]
<1>. DEFINE H == {b \in Nat : \E a \in curve : g[b][a] # Multiple(a)[b]}
<1>. SUFFICES ASSUME H # {} PROVE FALSE
  OBVIOUS
<1>1. PICK b \in H : \A k \in H : b <= k
  <2>. H \in SUBSET Nat
    OBVIOUS
  <2>. HIDE DEF H
  <2>. QED BY SmallestNumber
<1>2. PICK a \in curve : g[b][a] # Multiple(a)[b]
  OBVIOUS
<1>3. b \in Nat /\ b \div 2 \in Nat /\ (b # 0 => b \div 2 < b)
  <2>. b \in Nat
    OBVIOUS
  <2>. QED BY Half
<1>4. g[b][a] = IF b = 0 THEN O
                ELSE IF b % 2 = 0 THEN g[b \div 2][add(a, a)] ELSE add(a, g[b \div 2][add(a, a)])
  BY <1>3, DoublingAt
<1>5. CASE b = 0
  BY <1>2, <1>4, <1>5, MultipleStep
<1>6. CASE b # 0
  <2>1. b \div 2 \notin H
    <3>. DEFINE n == b \div 2
    <3>1. n \in Nat /\ n < b
      BY <1>3, <1>6
    <3>. HIDE DEF n, H
    <3>2. n \notin H
      BY <1>1, <1>3, <3>1
    <3>. QED BY <3>2 DEF n
  <2>2. add(a, a) \in curve
    BY Closed
  <2>3. g[b \div 2][add(a, a)] = Multiple(add(a, a))[b \div 2]
    BY <1>3, <2>1, <2>2
  <2>. HIDE DEF H
  <2>. QED BY <1>2, <1>3, <1>4, <1>6, <2>3, MultipleHalf
<1>. QED BY <1>5, <1>6

\* mul computes multiples.
LEMMA MulIsMultiple ==
    ASSUME NEW p \in curve, NEW k \in 0 .. Q - 1
    PROVE  mul(p, k) = Multiple(p)[k] /\ mul(p, k) \in curve
<1>. DEFINE g == CHOOSE g : Doubling(g)
<1>1. Doubling(g)
  BY DoublingExists
<1>2. affine(k, Q) = k /\ k \in Nat
  <2>1. Q \in Nat \ {0} /\ k \in Int
    BY CurveAssumption
  <2>2. affine(k, Q) = k % Q
    BY <2>1, AffineIsMod
  <2>3. k % Q = k
    BY <2>1, FirstPlace
  <2>. QED BY <2>1, <2>2, <2>3
<1>3. mul(p, k) = g[k][p]
  BY <1>2 DEF mul, Doubling
<1>. HIDE DEF g
<1>4. g[k][p] = Multiple(p)[k]
  BY <1>1, <1>2, DoublingIsMultiple
<1>. QED BY <1>2, <1>3, <1>4, MultipleStep

-----------------------------------------------------------------------------
\* The recursion of egcd.
Triples == Int \X Int \X Int

NextTriple(a, b, e) == <<e[1], e[3] - (b \div a) * e[2], e[2]>>

IsEgcd(g) ==
    g = [a \in Nat |->
            [b \in Nat |->
                IF a = 0 THEN <<b, 0, 1>>
                ELSE LET e == g[b % a][a] IN <<e[1], e[3] - (b \div a) * e[2], e[2]>>]]

LEMMA NextTripleType ==
    ASSUME NEW a \in Nat \ {0}, NEW b \in Nat, NEW e \in Triples
    PROVE  NextTriple(a, b, e) \in Triples
<1>. DEFINE q == b \div a
<1>1. q \in Int
  BY DivNat
<1>2. e[1] \in Int /\ e[2] \in Int /\ e[3] \in Int
  BY DEF Triples
<1>. HIDE DEF q
<1>3. e[3] - q * e[2] \in Int
  BY <1>1, <1>2
<1>. QED BY <1>2, <1>3 DEF NextTriple, Triples, q

LEMMA EgcdExists == \E g : IsEgcd(g)
<1>. DEFINE S == [Nat -> [Nat -> Triples]]
            value(h, a, b) == IF a = 0 THEN <<b, 0, 1>> ELSE NextTriple(a, b, h[b % a][a])
            round == [h \in S |-> [a \in Nat |-> [b \in Nat |-> value(h, a, b)]]]
            start == [a \in Nat |-> [b \in Nat |-> <<0, 0, 0>>]]
<1>1. ASSUME NEW h \in S, NEW a \in Nat, NEW b \in Nat PROVE value(h, a, b) \in Triples
  <2>1. CASE a = 0
    BY <2>1 DEF Triples
  <2>2. CASE a # 0
    <3>1. b % a \in Nat /\ a \in Nat \ {0}
      BY <2>2, SmallerRest
    <3>2. h[b % a][a] \in Triples
      BY <3>1
    <3>. QED BY <2>2, <3>1, <3>2, NextTripleType
  <2>. QED BY <2>1, <2>2
<1>. HIDE DEF value
<1>2. round \in [S -> S]
  <2>. SUFFICES ASSUME NEW h \in S PROVE [a \in Nat |-> [b \in Nat |-> value(h, a, b)]] \in S
    OBVIOUS
  <2>. QED BY <1>1
<1>3. start \in S
  BY DEF Triples
<1>4. PICK h : IsIteration(h, S, start, round)
  <2>. HIDE DEF S, start, round
  <2>. QED BY <1>2, <1>3, Iteration
<1>5. ASSUME NEW n \in Nat PROVE h[n] \in S /\ h[n + 1] = [a \in Nat |-> [b \in Nat |-> value(h[n], a, b)]]
  <2>1. h[n] \in S /\ h[n + 1] = round[h[n]]
    <3>1. n + 1 \in Nat /\ n + 1 # 0 /\ (n + 1) - 1 = n
      OBVIOUS
    <3>. HIDE DEF S, start, round
    <3>. QED BY <1>4, <3>1 DEF IsIteration
  <2>. HIDE DEF S
  <2>. QED BY <2>1
<1>. HIDE DEF S, round, start
<1>. DEFINE H == {n \in Nat : \A a \in Nat : a < n => \A m \in Nat : m >= n => h[m][a] = h[n][a]}
<1>6. 0 \in H
  OBVIOUS
<1>7. ASSUME NEW n \in H PROVE n + 1 \in H
  <2>. SUFFICES ASSUME NEW a \in Nat, a < n + 1, NEW m \in Nat, m >= n + 1
                PROVE  h[m][a] = h[n + 1][a]
    OBVIOUS
  <2>. DEFINE k == m - 1
  <2>1. k \in Nat /\ m = k + 1 /\ k >= n /\ n \in Nat
    OBVIOUS
  <2>2. ASSUME NEW b \in Nat PROVE value(h[k], a, b) = value(h[n], a, b)
    <3>1. CASE a = 0
      BY <3>1 DEF value
    <3>2. CASE a # 0
      <4>. DEFINE r == b % a
      <4>1. r \in Nat /\ r < n
        <5>1. r \in Nat /\ r < a
          BY <3>2, SmallerRest
        <5>. HIDE DEF r
        <5>. QED BY <5>1, <2>1
      <4>. HIDE DEF r, k
      <4>2. h[k][r] = h[n][r]
        BY <4>1, <2>1
      <4>. QED BY <4>2 DEF value, r
    <3>. QED BY <3>1, <3>2
  <2>. HIDE DEF k, H
  <2>3. h[k + 1][a] = [b \in Nat |-> value(h[k], a, b)]
    BY <2>1, <1>5
  <2>4. h[n + 1][a] = [b \in Nat |-> value(h[n], a, b)]
    BY <2>1, <1>5, ZenonT(60)
  <2>. QED BY <2>1, <2>2, <2>3, <2>4
<1>8. H = Nat
  <2>1. H \in SUBSET Nat
    OBVIOUS
  <2>. HIDE DEF H
  <2>. QED BY <2>1, <1>6, <1>7, Induction
<1>9. \A n \in Nat : \A a \in Nat : a < n => \A m \in Nat : m >= n => h[m][a] = h[n][a]
  <2>. SUFFICES ASSUME NEW n \in Nat PROVE \A a \in Nat : a < n => \A m \in Nat : m >= n => h[m][a] = h[n][a]
    OBVIOUS
  <2>1. n \in H
    <3>. HIDE DEF H
    <3>. QED BY <1>8
  <2>. QED BY <2>1
<1>. HIDE DEF H
<1>. DEFINE g == [a \in Nat |-> h[a + 1][a]]
<1>10. ASSUME NEW a \in Nat
       PROVE  g[a] = [b \in Nat |->
                IF a = 0 THEN <<b, 0, 1>>
                ELSE LET e == g[b % a][a] IN <<e[1], e[3] - (b \div a) * e[2], e[2]>>]
  <2>1. g[a] = [b \in Nat |-> value(h[a], a, b)]
    BY <1>5
  <2>2. ASSUME NEW b \in Nat, a # 0 PROVE h[a][b % a] = g[b % a]
    <3>. DEFINE r == b % a
    <3>1. r \in Nat /\ r < r + 1 /\ a >= r + 1 /\ r + 1 \in Nat
      <4>1. r \in Nat /\ r < a
        BY <2>2, SmallerRest
      <4>. HIDE DEF r
      <4>. QED BY <4>1
    <3>. HIDE DEF r
    <3>2. h[a][r] = h[r + 1][r]
      BY <3>1, <1>9
    <3>3. g[r] = h[r + 1][r]
      BY <3>1
    <3>. HIDE DEF g
    <3>. QED BY <3>2, <3>3 DEF r
  <2>. HIDE DEF g
  <2>3. ASSUME NEW b \in Nat
        PROVE  value(h[a], a, b) = IF a = 0 THEN <<b, 0, 1>>
                 ELSE LET e == g[b % a][a] IN <<e[1], e[3] - (b \div a) * e[2], e[2]>>
    BY <2>2 DEF value, NextTriple
  <2>. QED BY <2>1, <2>3
<1>11. IsEgcd(g)
  <2>1. g = [a \in Nat |-> g[a]]
    OBVIOUS
  <2>. HIDE DEF g
  <2>. QED BY <2>1, <1>10 DEF IsEgcd
<1>. QED BY <1>11

\* One divides everything: its inverse is one.
LEMMA InverseOfOne == modinv(1) = 1
<1>0. Q \in Nat \ {0} /\ Q \in Int /\ Q > 2
  BY CurveAssumption
<1>1. IsEgcd(egcd)
  <2>1. PICK g : IsEgcd(g)
    BY EgcdExists
  <2>. QED BY <2>1 DEF IsEgcd, egcd
<1>2. affine(1, Q) = 1
  <2>1. affine(1, Q) = 1 % Q /\ 1 % Q = 1
    BY <1>0, AffineIsMod, FirstPlace
  <2>. QED BY <2>1
<1>3. ASSUME NEW a \in Nat, NEW b \in Nat
      PROVE  egcd[a][b] = IF a = 0 THEN <<b, 0, 1>> ELSE NextTriple(a, b, egcd[b % a][a])
  <2>1. egcd[a] = [c \in Nat |->
                IF a = 0 THEN <<c, 0, 1>>
                ELSE LET e == egcd[c % a][a] IN <<e[1], e[3] - (c \div a) * e[2], e[2]>>]
    BY <1>1 DEF IsEgcd
  <2>. QED BY <2>1 DEF NextTriple
<1>4. Q % 1 = 0 /\ 0 \in Nat /\ 1 \in Nat /\ Q \in Nat /\ Q \div 1 = Q
  BY <1>0
<1>5. egcd[0][1] = <<1, 0, 1>>
  BY <1>3, <1>4
<1>6. egcd[1][Q] = NextTriple(1, Q, <<1, 0, 1>>)
  <2>1. egcd[1][Q] = IF 1 = 0 THEN <<Q, 0, 1>> ELSE NextTriple(1, Q, egcd[Q % 1][1])
    BY <1>3, <1>4
  <2>. QED BY <2>1, <1>4, <1>5
<1>7. egcd[1][Q] = <<1, 1, 0>>
  <2>1. NextTriple(1, Q, <<1, 0, 1>>) = <<1, 1 - Q * 0, 0>>
    BY <1>4 DEF NextTriple
  <2>. QED BY <1>0, <1>6, <2>1
<1>8. modinv(1) = rem(1, Q)
  BY <1>2, <1>7 DEF modinv
<1>9. rem(1, Q) = 1 % Q /\ 1 % Q = 1
  BY <1>0, FirstPlace DEF rem
<1>. QED BY <1>8, <1>9

-----------------------------------------------------------------------------
LEMMA MultipleOfZero == \A n \in Nat : Multiple(O)[n] = O
<1>. DEFINE H == {n \in Nat : Multiple(O)[n] = O}
<1>1. O \in curve /\ add(O, O) = O
  BY CurveLaws
<1>2. Multiple(O)[0] = O /\ \A n \in Nat : Multiple(O)[n + 1] = add(Multiple(O)[n], O)
  BY <1>1, MultipleStep
<1>3. 0 \in H
  BY <1>2
<1>4. ASSUME NEW n \in H PROVE n + 1 \in H
  <2>1. n \in Nat /\ n + 1 \in Nat
    OBVIOUS
  <2>2. Multiple(O)[n + 1] = add(Multiple(O)[n], O)
    BY <1>2, <2>1
  <2>. QED BY <2>1, <2>2, <1>1
<1>5. H = Nat
  <2>1. H \in SUBSET Nat
    OBVIOUS
  <2>. HIDE DEF H
  <2>. QED BY <2>1, <1>3, <1>4, Induction
<1>. QED BY <1>5

LEMMA Swap ==
    ASSUME NEW p \in curve, NEW q \in curve, NEW r \in curve, NEW s \in curve
    PROVE  add(add(p, q), add(r, s)) = add(add(p, r), add(q, s))
<1>1. /\ add(r, s) \in curve /\ add(q, s) \in curve /\ add(q, r) = add(r, q)
      /\ add(q, r) \in curve
  BY Closed
<1>2. add(add(p, q), add(r, s)) = add(p, add(q, add(r, s)))
  BY <1>1, Associative
<1>3. add(q, add(r, s)) = add(add(q, r), s)
  BY Associative
<1>4. add(add(r, q), s) = add(r, add(q, s))
  BY Associative
<1>5. add(p, add(r, add(q, s))) = add(add(p, r), add(q, s))
  BY <1>1, Associative
<1>. QED BY <1>1, <1>2, <1>3, <1>4, <1>5

LEMMA MultipleOfSum ==
    ASSUME NEW p \in curve, NEW q \in curve
    PROVE  \A n \in Nat : Multiple(add(p, q))[n] = add(Multiple(p)[n], Multiple(q)[n])
<1>. DEFINE f == Multiple(p)
            g == Multiple(q)
            h == Multiple(add(p, q))
            H == {n \in Nat : h[n] = add(f[n], g[n])}
<1>1. add(p, q) \in curve /\ O \in curve /\ add(O, O) = O
  BY Closed, CurveLaws
<1>2. /\ f[0] = O /\ (\A n \in Nat : f[n] \in curve) /\ \A n \in Nat : f[n + 1] = add(f[n], p)
      /\ g[0] = O /\ (\A n \in Nat : g[n] \in curve) /\ \A n \in Nat : g[n + 1] = add(g[n], q)
      /\ h[0] = O /\ \A n \in Nat : h[n + 1] = add(h[n], add(p, q))
  BY <1>1, MultipleStep
<1>. HIDE DEF f, g, h
<1>3. 0 \in H
  BY <1>1, <1>2
<1>4. ASSUME NEW n \in H PROVE n + 1 \in H
  <2>1. n \in Nat /\ n + 1 \in Nat /\ h[n] = add(f[n], g[n])
    OBVIOUS
  <2>2. h[n + 1] = add(add(f[n], g[n]), add(p, q)) /\ f[n] \in curve /\ g[n] \in curve
    BY <1>2, <2>1
  <2>3. add(add(f[n], g[n]), add(p, q)) = add(add(f[n], p), add(g[n], q))
    BY <2>2, Swap
  <2>. QED BY <1>2, <2>1, <2>2, <2>3
<1>5. H = Nat
  <2>1. H \in SUBSET Nat
    OBVIOUS
  <2>. HIDE DEF H
  <2>. QED BY <2>1, <1>3, <1>4, Induction
<1>. QED BY <1>5 DEF f, g, h

\* The numbers of the curve.
LEMMA Numbers ==
    /\ A \in Int /\ D \in Int /\ Q \in Nat \ {0} /\ Q > 2
    /\ L \in 1 .. Q - 1 /\ L \in Nat /\ L % 2 = 1
BY CurveAssumption

LEMMA Coordinates ==
    ASSUME NEW p \in curve
    PROVE  /\ p[1] \in 0 .. Q - 1 /\ p[2] \in 0 .. Q - 1 /\ p = <<p[1], p[2]>>
           /\ incurve(p)
BY DEF curve

LEMMA IsZero ==
    ASSUME NEW p \in curve
    PROVE  iszero(p) <=> p = O
<1>. DEFINE x == p[1]
            y == p[2]
<1>1. x \in 0 .. Q - 1 /\ y \in 0 .. Q - 1 /\ p = <<x, y>> /\ Q \in Nat \ {0} /\ Q > 2
  BY Coordinates, Numbers
<1>2. iszero(p) <=> x % Q = 0 /\ (y - 1) % Q = 0
  BY DEF iszero
<1>. HIDE DEF x, y
<1>3. x % Q = x
  BY <1>1, FirstPlace
<1>4. (y - 1) % Q = 0 <=> y = 1
  <2>1. CASE y = 0
    <3>1. y - 1 = Q * (-1) + (Q - 1) /\ Q - 1 \in 0 .. Q - 1 /\ -1 \in Int
      BY <1>1, <2>1
    <3>2. (y - 1) % Q = Q - 1
      <4>. DEFINE m == -1
                  z == y - 1
                  r == Q - 1
      <4>1. z = Q * m + r /\ r \in 0 .. Q - 1 /\ m \in Int
        BY <3>1
      <4>. HIDE DEF m, z, r
      <4>2. z % Q = r
        BY <4>1, <1>1, Place
      <4>. QED BY <4>2 DEF z, r
    <3>. QED BY <3>2, <2>1, <1>1
  <2>2. CASE y # 0
    <3>. DEFINE z == y - 1
    <3>1. z \in 0 .. Q - 1 /\ (z = 0 <=> y = 1)
      BY <2>2, <1>1
    <3>. HIDE DEF z
    <3>2. z % Q = z
      BY <3>1, <1>1, FirstPlace
    <3>. QED BY <3>1, <3>2 DEF z
  <2>. QED BY <2>1, <2>2
<1>. QED BY <1>1, <1>2, <1>3, <1>4 DEF O

\* Membership in the subgroup is being a root of zero.
LEMMA InSubgroup ==
    ASSUME NEW p \in curve
    PROVE  insubgroup(p) <=> Multiple(p)[L] = O
<1>1. incurve(p) /\ L \in 0 .. Q - 1
  BY Coordinates, Numbers
<1>2. mul(p, L) = Multiple(p)[L] /\ mul(p, L) \in curve
  BY <1>1, MulIsMultiple
<1>3. iszero(mul(p, L)) <=> mul(p, L) = O
  BY <1>2, IsZero
<1>. QED BY <1>1, <1>2, <1>3 DEF insubgroup

LEMMA MultiplesInSubgroup ==
    ASSUME NEW k \in Nat
    PROVE  Multiple(G)[k] \in curve /\ Multiple(Multiple(G)[k])[L] = O
<1>1. G \in curve /\ L \in Nat
  BY CurveLaws, Numbers
<1>2. Multiple(G)[L] = O
  BY <1>1, InSubgroup, CurveAssumption
<1>3. Multiple(Multiple(G)[k])[L] = Multiple(G)[k * L]
  BY <1>1, MultipleOfMultiple
<1>4. Multiple(Multiple(G)[L])[k] = Multiple(G)[L * k]
  BY <1>1, MultipleOfMultiple
<1>5. k * L = L * k
  BY <1>1
<1>6. Multiple(O)[k] = O
  BY MultipleOfZero
<1>. QED BY <1>1, <1>2, <1>3, <1>4, <1>5, <1>6, MultipleStep

-----------------------------------------------------------------------------
\* The number -x of the field.
LEMMA Negation ==
    ASSUME NEW x \in 0 .. Q - 1
    PROVE  /\ affine(-x, Q) = IF x = 0 THEN 0 ELSE Q - x
           /\ affine(-x, Q) \in 0 .. Q - 1
           /\ affine(-affine(-x, Q), Q) = x
<1>1. ASSUME NEW z \in 0 .. Q - 1 PROVE affine(-z, Q) = IF z = 0 THEN 0 ELSE Q - z
  <2>. DEFINE m == IF z = 0 THEN 0 ELSE -1
              r == IF z = 0 THEN 0 ELSE Q - z
              y == -z
  <2>1. Q \in Nat \ {0} /\ y \in Int /\ m \in Int /\ r \in 0 .. Q - 1
    BY Numbers
  <2>2. y = Q * m + r
    <3>1. CASE z = 0
      BY <3>1, <2>1
    <3>2. CASE z # 0
      <4>1. Q * (-1) = -Q
        BY <2>1
      <4>. QED BY <4>1, <3>2, <2>1
    <3>. QED BY <3>1, <3>2
  <2>. HIDE DEF y, r, m
  <2>3. y % Q = r
    BY <2>1, <2>2, Place
  <2>4. affine(y, Q) = y % Q
    BY <2>1, AffineIsMod
  <2>. QED BY <2>3, <2>4 DEF y, r
<1>2. Q \in Nat \ {0} /\ Q > 2
  BY Numbers
<1>. DEFINE w == affine(-x, Q)
<1>3. w = IF x = 0 THEN 0 ELSE Q - x
  BY <1>1
<1>. HIDE DEF w
<1>4. w \in 0 .. Q - 1
  BY <1>2, <1>3
<1>5. affine(-w, Q) = IF w = 0 THEN 0 ELSE Q - w
  BY <1>1, <1>4
<1>. QED BY <1>2, <1>3, <1>4, <1>5 DEF w

LEMMA RemZero ==
    ASSUME NEW x \in Int
    PROVE  rem(x, Q) = 0 <=> x % Q = 0
<1>1. Q \in Nat \ {0}
  BY Numbers
<1>2. CASE x >= 0
  BY <1>2 DEF rem
<1>3. CASE x < 0
  <2>. DEFINE y == -x
  <2>1. y \in Nat /\ y \in Int /\ x = -y
    BY <1>3
  <2>2. rem(x, Q) = -(y % Q)
    BY <1>3 DEF rem
  <2>. HIDE DEF y
  <2>3. y % Q \in 0 .. Q - 1 /\ x % Q \in 0 .. Q - 1
    BY <1>1, <2>1, Division
  <2>4. x % Q = 0 <=> \E q \in Int : x = Q * q
    BY <1>1, <2>1, Divides
  <2>5. y % Q = 0 <=> \E q \in Int : y = Q * q
    BY <1>1, <2>1, Divides
  <2>6. ASSUME NEW q \in Int PROVE -(Q * q) = Q * (-q) /\ -q \in Int /\ Q * q \in Int
    BY <1>1
  <2>7. (\E q \in Int : x = Q * q) => \E q \in Int : y = Q * q
    <3>. SUFFICES ASSUME NEW q \in Int, x = Q * q PROVE \E j \in Int : y = Q * j
      OBVIOUS
    <3>1. y = -(Q * q)
      BY <2>1
    <3>. QED BY <3>1, <2>6
  <2>8. (\E q \in Int : y = Q * q) => \E q \in Int : x = Q * q
    <3>. SUFFICES ASSUME NEW q \in Int, y = Q * q PROVE \E j \in Int : x = Q * j
      OBVIOUS
    <3>1. x = -(Q * q)
      BY <2>1
    <3>. QED BY <3>1, <2>6
  <2>. QED BY <2>2, <2>3, <2>4, <2>5, <2>7, <2>8
<1>. QED BY <1>2, <1>3

\* The difference of the two sides of the equation of the curve.
Sides(s, t) == A * s + t - 1 - D * s * t

LEMMA OnCurve ==
    ASSUME NEW x \in 0 .. Q - 1, NEW y \in 0 .. Q - 1
    PROVE  <<x, y>> \in curve <=> Sides(x * x, y * y) % Q = 0
<1>. DEFINE s == x * x
            t == y * y
<1>1. s \in Int /\ t \in Int /\ Q \in Nat \ {0} /\ A \in Int /\ D \in Int
  BY Numbers
<1>2. incurve(<<x, y>>) <=> rem(Sides(s, t), Q) = 0
  BY DEF incurve, Sides
<1>3. <<x, y>> \in curve <=> incurve(<<x, y>>)
  BY DEF curve
<1>. HIDE DEF s, t
<1>4. A * s \in Int /\ D * s \in Int
  BY <1>1
<1>5. (D * s) * t \in Int
  BY <1>1, <1>4
<1>6. Sides(s, t) \in Int
  BY <1>1, <1>4, <1>5 DEF Sides
<1>. QED BY <1>2, <1>3, <1>6, RemZero DEF s, t

\* The inverse of a point is on the curve.
LEMMA InverseOnCurve ==
    ASSUME NEW p \in curve
    PROVE  <<affine(-p[1], Q), p[2]>> \in curve
<1>. DEFINE x == p[1]
            y == p[2]
            u == affine(-x, Q)
<1>1. x \in 0 .. Q - 1 /\ y \in 0 .. Q - 1 /\ p = <<x, y>> /\ Q \in Nat \ {0} /\ A \in Int /\ D \in Int
  BY Coordinates, Numbers
<1>. HIDE DEF x, y
<1>2. u = (IF x = 0 THEN 0 ELSE Q - x) /\ u \in 0 .. Q - 1
  BY <1>1, Negation
<1>. HIDE DEF u
<1>3. Sides(x * x, y * y) % Q = 0
  BY <1>1, OnCurve
<1>. DEFINE s == x * x
            t == y * y
            w == Q - 2 * x
            v == Q * w
<1>4. CASE x = 0
  <2>1. u = x /\ p \in curve
    BY <1>2, <1>4
  <2>. QED BY <2>1, <1>1 DEF u, x, y
<1>5. CASE x # 0
  <2>1. u * u = s + v
    <3>1. (Q - x) * (Q - x) = Q * Q - Q * x - x * Q + x * x
      BY <1>1
    <3>2. Q * (Q - 2 * x) = Q * Q - Q * x - x * Q
      BY <1>1
    <3>3. Q * Q \in Int /\ Q * x \in Int /\ x * Q \in Int /\ x * x \in Int
      BY <1>1
    <3>. QED BY <1>2, <1>5, <3>1, <3>2, <3>3
  <2>2. s \in Int /\ t \in Int /\ w \in Int
    BY <1>1
  <2>. HIDE DEF s, t, w
  <2>. DEFINE c == A * w - D * w * t
              d == Sides(s, t)
              e == d \div Q
              f == e + c
  <2>3. c \in Int /\ v \in Int /\ d \in Int
    <3>1. A * w \in Int /\ D * w \in Int /\ A * s \in Int /\ D * s \in Int
      BY <1>1, <2>2
    <3>2. (D * w) * t \in Int /\ (D * s) * t \in Int /\ v \in Int
      BY <1>1, <2>2, <3>1
    <3>. QED BY <2>2, <3>1, <3>2 DEF Sides
  <2>4. Sides(s + v, t) = d + Q * c
    <3>1. A * (s + v) = A * s + A * v
      BY <1>1, <2>2, <2>3
    <3>2. A * v = Q * (A * w)
      BY <1>1, <2>2
    <3>3. D * (s + v) = D * s + D * v
      BY <1>1, <2>2, <2>3
    <3>4. D * v = Q * (D * w)
      BY <1>1, <2>2
    <3>. HIDE DEF v
    <3>5. A * s \in Int /\ D * s \in Int /\ A * w \in Int /\ D * w \in Int /\ A * v \in Int /\ D * v \in Int
      BY <1>1, <2>2, <2>3
    <3>6. (D * s + D * v) * t = D * s * t + D * v * t
      BY <2>2, <3>5
    <3>7. (D * v) * t = Q * (D * w * t)
      <4>. DEFINE b == D * w
      <4>1. b \in Int /\ D * v = Q * b
        BY <3>4, <3>5
      <4>. HIDE DEF b
      <4>2. (Q * b) * t = Q * (b * t)
        BY <1>1, <2>2, <4>1
      <4>. QED BY <4>1, <4>2 DEF b
    <3>8. Q * (A * w - D * w * t) = Q * (A * w) - Q * (D * w * t)
      <4>. DEFINE a == A * w
                  b == D * w * t
      <4>1. a \in Int /\ b \in Int
        BY <2>2, <3>5
      <4>. HIDE DEF a, b
      <4>2. Q * (a - b) = Q * a - Q * b
        BY <1>1, <4>1
      <4>. QED BY <4>2 DEF a, b
    <3>9. Sides(s + v, t) = (A * s + A * v) + t - 1 - (D * s * t + D * v * t)
      BY <3>1, <3>3, <3>6 DEF Sides
    <3>. DEFINE k1 == A * s
                k2 == A * v
                k3 == D * s * t
                k4 == D * v * t
    <3>10. k1 \in Int /\ k2 \in Int /\ k3 \in Int /\ k4 \in Int
      BY <3>5, <2>2
    <3>11. Sides(s + v, t) = (k1 + k2) + t - 1 - (k3 + k4) /\ d = k1 + t - 1 - k3
      BY <3>9 DEF Sides
    <3>12. Q * c = k2 - k4
      BY <3>2, <3>7, <3>8
    <3>. HIDE DEF k1, k2, k3, k4, c, d
    <3>. QED BY <3>10, <3>11, <3>12, <2>2
  <2>. HIDE DEF c, d, v
  <2>5. e \in Int /\ d = Q * e + 0
    <3>1. d % Q = 0
      BY <1>3 DEF d, s, t
    <3>. QED BY <3>1, <1>1, <2>3, Division
  <2>. HIDE DEF e
  <2>6. Sides(s + v, t) = Q * f + 0 /\ f \in Int
    <3>1. Q * (e + c) = Q * e + Q * c /\ Q * e \in Int /\ Q * c \in Int
      BY <1>1, <2>3, <2>5
    <3>2. Q * f = Q * e + Q * c
      BY <3>1
    <3>. HIDE DEF f
    <3>3. Sides(s + v, t) = Q * f + 0
      BY <2>4, <2>5, <3>1, <3>2
    <3>. QED BY <2>3, <2>5, <3>3 DEF f
  <2>. HIDE DEF f
  <2>7. Sides(s + v, t) % Q = 0
    <3>. DEFINE z == Sides(s + v, t)
    <3>1. z = Q * f + 0 /\ 0 \in 0 .. Q - 1
      BY <2>6, <1>1
    <3>. HIDE DEF z
    <3>2. z % Q = 0
      BY <3>1, <2>6, <1>1, Place
    <3>. QED BY <3>2 DEF z
  <2>8. Sides(u * u, y * y) % Q = 0
    BY <2>1, <2>7 DEF t
  <2>. QED BY <2>8, <1>1, <1>2, OnCurve DEF x, y, u
<1>. QED BY <1>4, <1>5

-----------------------------------------------------------------------------
\* The point of order two.
T == <<0, Q - 1>>

LEMMA TwoTorsion ==
    /\ T \in curve /\ T # O
    /\ add(T, T) = O
    /\ \A p \in curve : add(T, p) = <<affine(-p[1], Q), affine(-p[2], Q)>>
<1>1. Q \in Nat \ {0} /\ Q > 2 /\ A \in Int /\ D \in Int /\ 0 \in 0 .. Q - 1 /\ Q - 1 \in 0 .. Q - 1
  BY Numbers
<1>2. T \in curve
  <2>. DEFINE t == (Q - 1) * (Q - 1)
  <2>1. t = Q * Q - 2 * Q + 1 /\ Q * Q \in Int
    BY <1>1
  <2>2. Q * (Q - 2) = Q * Q - 2 * Q /\ Q - 2 \in Int
    BY <1>1
  <2>3. Sides(0 * 0, t) = A * 0 + t - 1 - D * 0 * t
    BY DEF Sides
  <2>4. t = Q * (Q - 2) + 1 /\ t \in Int
    BY <1>1, <2>1, <2>2
  <2>. HIDE DEF t
  <2>5. A * 0 = 0 /\ D * 0 * t = 0
    BY <1>1, <2>4
  <2>6. Sides(0 * 0, t) = Q * (Q - 2)
    BY <1>1, <2>2, <2>3, <2>4, <2>5
  <2>7. Sides(0 * 0, t) % Q = 0
    <3>. DEFINE z == Sides(0 * 0, t)
                q == Q - 2
    <3>1. z = Q * q /\ z \in Int /\ q \in Int
      BY <1>1, <2>2, <2>6
    <3>. HIDE DEF z, q
    <3>2. z % Q = 0
      BY <1>1, <3>1, Divides
    <3>. QED BY <3>2 DEF z
  <2>. QED BY <1>1, <2>7, OnCurve DEF T, t
<1>3. ASSUME NEW p \in curve
      PROVE  add(T, p) = <<affine(-p[1], Q), affine(-p[2], Q)>>
  <2>. DEFINE x == p[1]
              y == p[2]
              dxy == D * 0 * x * (Q - 1) * y
  <2>1. x \in 0 .. Q - 1 /\ y \in 0 .. Q - 1 /\ x \in Int /\ y \in Int
    BY Coordinates
  <2>. HIDE DEF x, y
  <2>2. dxy = 0
    <3>1. D * 0 = 0 /\ 0 * x = 0 /\ 0 * (Q - 1) = 0 /\ 0 * y = 0
      BY <1>1, <2>1
    <3>. QED BY <3>1
  <2>3. add(T, p) = <<affine((0 * y + x * (Q - 1)) * modinv(1 + dxy), Q),
                      affine(((Q - 1) * y - A * 0 * x) * modinv(1 - dxy), Q)>>
    BY DEF add, T, x, y
  <2>. HIDE DEF dxy
  <2>4. modinv(1 + dxy) = 1 /\ modinv(1 - dxy) = 1
    <3>1. 1 + dxy = 1 /\ 1 - dxy = 1
      BY <2>2
    <3>. QED BY <3>1, InverseOfOne
  <2>5. ASSUME NEW z \in 0 .. Q - 1 PROVE affine(z * (Q - 1), Q) = affine(-z, Q)
    <3>. DEFINE a == z * (Q - 1)
                b == -z
                r == b % Q
                q == b \div Q
                j == z + q
    <3>1. a = Q * z + b /\ a \in Int /\ b \in Int /\ z \in Int /\ Q * z \in Int
      BY <1>1
    <3>. HIDE DEF a, b
    <3>2. q \in Int /\ r \in 0 .. Q - 1 /\ b = Q * q + r /\ Q * q \in Int
      BY <1>1, <3>1, Division
    <3>. HIDE DEF q, r
    <3>3. j \in Int /\ Q * j = Q * z + Q * q
      BY <1>1, <3>1, <3>2
    <3>. HIDE DEF j
    <3>4. a = Q * j + r
      BY <3>1, <3>2, <3>3
    <3>5. a % Q = r
      BY <1>1, <3>2, <3>3, <3>4, Place
    <3>6. affine(a, Q) = a % Q /\ affine(b, Q) = b % Q
      BY <1>1, <3>1, AffineIsMod
    <3>. QED BY <3>5, <3>6 DEF a, b, r
  <2>6. (0 * y + x * (Q - 1)) * 1 = x * (Q - 1)
    <3>. DEFINE z == x * (Q - 1)
    <3>1. z \in Int /\ 0 * y = 0
      BY <1>1, <2>1
    <3>. HIDE DEF z
    <3>2. (0 + z) * 1 = z
      BY <3>1
    <3>. QED BY <3>1, <3>2 DEF z
  <2>7. ((Q - 1) * y - A * 0 * x) * 1 = y * (Q - 1)
    <3>. DEFINE z == (Q - 1) * y
    <3>1. z \in Int /\ A * 0 = 0 /\ 0 * x = 0 /\ z = y * (Q - 1)
      BY <1>1, <2>1
    <3>. HIDE DEF z
    <3>2. (z - 0) * 1 = z
      BY <3>1
    <3>. QED BY <3>1, <3>2 DEF z
  <2>8. affine(x * (Q - 1), Q) = affine(-x, Q) /\ affine(y * (Q - 1), Q) = affine(-y, Q)
    BY <2>1, <2>5
  <2>. QED BY <2>3, <2>4, <2>6, <2>7, <2>8 DEF x, y
<1>4. add(T, T) = O
  <2>1. add(T, T) = <<affine(-0, Q), affine(-(Q - 1), Q)>>
    BY <1>2, <1>3 DEF T
  <2>2. affine(-0, Q) = 0 /\ affine(-(Q - 1), Q) = Q - (Q - 1)
    BY <1>1, Negation
  <2>. QED BY <1>1, <2>1, <2>2 DEF O
<1>5. T # O
  BY <1>1 DEF T, O
<1>. QED BY <1>2, <1>3, <1>4, <1>5

LEMMA OddMultipleOfT == Multiple(T)[L] = T
<1>. DEFINE n == L \div 2
<1>1. L \in Nat /\ L % 2 # 0
  BY Numbers
<1>2. n \in Nat /\ L = 2 * n + 1
  BY <1>1, Half
<1>. HIDE DEF n
<1>3. T \in curve /\ add(T, T) = O /\ add(T, O) = T
  BY TwoTorsion, CurveLaws
<1>4. Multiple(T)[2 * n + 1] = add(T, Multiple(O)[n])
  BY <1>2, <1>3, MultipleDouble
<1>. QED BY <1>2, <1>3, <1>4, MultipleOfZero

\* Of the two points with one x, one is in the subgroup at most.
LEMMA OtherPoint ==
    ASSUME NEW p \in curve, Multiple(p)[L] = O
    PROVE  LET other == <<p[1], affine(-p[2], Q)>>
           IN  other \in curve /\ ~insubgroup(other)
<1>. DEFINE n == <<affine(-p[1], Q), p[2]>>
            other == <<p[1], affine(-p[2], Q)>>
<1>0. L \in Nat /\ p[1] \in 0 .. Q - 1
  BY Numbers, Coordinates
<1>1. n \in curve /\ add(p, n) = O
  BY InverseOnCurve, CurveLaws
<1>2. other = add(T, n)
  <2>1. add(T, n) = <<affine(-n[1], Q), affine(-n[2], Q)>>
    BY <1>1, TwoTorsion
  <2>2. n[1] = affine(-p[1], Q) /\ n[2] = p[2]
    OBVIOUS
  <2>3. affine(-affine(-p[1], Q), Q) = p[1]
    BY <1>0, Negation
  <2>. QED BY <2>1, <2>2, <2>3
<1>. HIDE DEF n, other
<1>3. T \in curve /\ T # O /\ other \in curve
  BY <1>1, <1>2, TwoTorsion, Closed
<1>4. Multiple(n)[L] = O
  <2>1. Multiple(add(p, n))[L] = add(Multiple(p)[L], Multiple(n)[L])
    BY <1>0, <1>1, MultipleOfSum
  <2>2. Multiple(O)[L] = O /\ Multiple(n)[L] \in curve
    BY <1>0, <1>1, MultipleOfZero, MultipleStep
  <2>3. add(O, Multiple(n)[L]) = Multiple(n)[L]
    BY <2>2, CurveLaws
  <2>. QED BY <1>1, <2>1, <2>2, <2>3
<1>5. Multiple(other)[L] = add(T, O)
  <2>1. Multiple(add(T, n))[L] = add(Multiple(T)[L], Multiple(n)[L])
    BY <1>0, <1>1, <1>3, MultipleOfSum
  <2>. QED BY <1>2, <1>4, <2>1, OddMultipleOfT
<1>6. Multiple(other)[L] = T
  BY <1>3, <1>5, CurveLaws
<1>7. ~insubgroup(other)
  BY <1>3, <1>6, InSubgroup
<1>. QED BY <1>3, <1>7 DEF other

\* The x of a multiple of G gives the multiple back, whichever root is found.
LEMMA Decompressed ==
    ASSUME NEW k \in 0 .. L - 1
    PROVE  /\ mul(G, k) \in curve
           /\ mul(G, k) = Multiple(G)[k]
           /\ decompress(mul(G, k)[1]) = mul(G, k)
           /\ decompress(mul(G, k)[1]) # throws
<1>. DEFINE p == mul(G, k)
            x == p[1]
            y == rootAt(x)
<1>0. k \in 0 .. Q - 1 /\ k \in Nat /\ G \in curve
  BY Numbers, CurveLaws
<1>1. p \in curve /\ p = Multiple(G)[k]
  BY <1>0, MulIsMultiple
<1>2. Multiple(p)[L] = O
  BY <1>0, <1>1, MultiplesInSubgroup
<1>3. y \in {p[2], affine(-p[2], Q)}
  BY RootAssumption
<1>. HIDE DEF p
<1>4. p[2] \in 0 .. Q - 1 /\ p = <<x, p[2]>> /\ affine(-p[2], Q) \in 0 .. Q - 1
      /\ affine(-affine(-p[2], Q), Q) = p[2]
  BY <1>1, Coordinates, Negation
<1>5. insubgroup(p) /\ ~insubgroup(<<x, affine(-p[2], Q)>>)
  BY <1>1, <1>2, InSubgroup, OtherPoint
<1>6. y # throws /\ p # throws
  <2>1. Q \in Nat
    BY Numbers
  <2>2. y \in Int
    BY <2>1, <1>3, <1>4
  <2>3. throws \notin Int /\ throws \notin curve
    BY ThrowsAssumption
  <2>. QED BY <2>2, <2>3, <1>1
<1>7. decompress(x) = ofRoots(x, y)
  BY <1>6 DEF decompress
<1>. HIDE DEF x, y
<1>8. ofRoots(x, y) = p
  <2>1. CASE y = p[2]
    BY <2>1, <1>4, <1>5 DEF ofRoots
  <2>2. CASE y = affine(-p[2], Q)
    <3>1. <<x, y>> = <<x, affine(-p[2], Q)>> /\ <<x, affine(-y, Q)>> = p
      BY <2>2, <1>4
    <3>. QED BY <3>1, <1>5 DEF ofRoots
  <2>. QED BY <1>3, <2>1, <2>2
<1>. QED BY <1>1, <1>6, <1>7, <1>8 DEF p, x

\* A wallet that knows x of a public key finds the key: of the two points with
\* this x decompress() takes the one of the subgroup, whichever root tonelli()
\* has returned.
THEOREM DecompressFindsKeys == \A k \in 0 .. L - 1 : decompress(mul(G, k)[1]) = mul(G, k)
BY Decompressed

\* Both ends of the exchange get the same point.
LEMMA KeysAgree ==
    ASSUME NEW j \in 0 .. L - 1, NEW k \in 0 .. L - 1
    PROVE  mul(mul(G, j), k) = mul(mul(G, k), j) /\ mul(mul(G, j), k) \in curve
<1>1. j \in Nat /\ k \in Nat /\ j \in 0 .. Q - 1 /\ k \in 0 .. Q - 1 /\ G \in curve
  BY Numbers, CurveLaws
<1>2. /\ mul(G, j) \in curve /\ mul(G, j) = Multiple(G)[j]
      /\ mul(G, k) \in curve /\ mul(G, k) = Multiple(G)[k]
  BY Decompressed
<1>3. mul(mul(G, j), k) = Multiple(mul(G, j))[k] /\ mul(mul(G, j), k) \in curve
      /\ mul(mul(G, k), j) = Multiple(mul(G, k))[j]
  BY <1>1, <1>2, MulIsMultiple
<1>4. Multiple(Multiple(G)[j])[k] = Multiple(G)[j * k] /\ Multiple(Multiple(G)[k])[j] = Multiple(G)[k * j]
  BY <1>1, MultipleOfMultiple
<1>5. j * k = k * j
  BY <1>1
<1>. QED BY <1>2, <1>3, <1>4, <1>5

-----------------------------------------------------------------------------
F == 0 .. Q - 1

\* An encrypted note: the parts encrypt makes it of.
Ciphertext(utxo, x, h, iv) ==
    <<x, iv>> \o [i \in DOMAIN utxo |-> affine(utxo[i] + mask(h, iv, i), Q)]

LEMMA Digests ==
    ASSUME NEW v, v \in (Amounts \X F \X Secrets) \cup (F \X F \X (0 .. 2))
    PROVE  b2hash(v) \in F /\ b2hash(v) \in Nat
<1>1. blake2b(bytesOf(v)) \in Nat
  BY DigestAssumption DEF F
<1>2. Q \in Nat \ {0}
  BY Numbers
<1>3. affine(blake2b(bytesOf(v)), Q) \in 0 .. Q - 1
  <2>. DEFINE b == blake2b(bytesOf(v))
  <2>1. b \in Int
    BY <1>1
  <2>. HIDE DEF b
  <2>2. affine(b, Q) \in 0 .. Q - 1
    BY <2>1, <1>2, AffineIsMod
  <2>. QED BY <2>2 DEF b
<1>. QED BY <1>2, <1>3 DEF b2hash, F

LEMMA MaskType ==
    ASSUME NEW h \in F, NEW iv \in F, NEW i \in 1 .. 3
    PROVE  mask(h, iv, i) \in Nat
<1>1. <<h, iv, i - 1>> \in F \X F \X (0 .. 2)
  <2>1. i - 1 \in 0 .. 2
    OBVIOUS
  <2>. QED BY <2>1
<1>. QED BY <1>1, Digests DEF mask

Utxos == Amounts \X F \X Secrets

LEMMA UtxoType ==
    ASSUME NEW utxo \in Utxos
    PROVE  /\ DOMAIN utxo = 1 .. 3 /\ utxo = [i \in 1 .. 3 |-> utxo[i]]
           /\ \A i \in 1 .. 3 : utxo[i] \in F
<1>1. utxo = <<utxo[1], utxo[2], utxo[3]>> /\ utxo[1] \in F /\ utxo[2] \in F /\ utxo[3] \in F
  <2>1. PICK a \in Amounts, b \in F, c \in Secrets : utxo = <<a, b, c>>
    BY DEF Utxos
  <2>2. a \in F /\ c \in F
    BY NotesAssumption DEF F
  <2>. QED BY <2>1, <2>2
<1>2. \A i \in 1 .. 3 : i = 1 \/ i = 2 \/ i = 3
  OBVIOUS
<1>. QED BY <1>1, <1>2

LEMMA EncryptedType ==
    ASSUME NEW utxo \in Utxos, NEW x \in F, NEW h \in F, NEW iv \in F
    PROVE  LET words == Ciphertext(utxo, x, h, iv)
           IN  /\ words \in Seq(F) /\ Len(words) = 5
               /\ words[1] = x /\ words[2] = iv
               /\ \A i \in 1 .. 3 : words[i + 2] = affine(utxo[i] + mask(h, iv, i), Q)
<1>. DEFINE tail == [i \in DOMAIN utxo |-> affine(utxo[i] + mask(h, iv, i), Q)]
            head == <<x, iv>>
            words == head \o tail
<1>0. DOMAIN utxo = 1 .. 3 /\ Q \in Nat \ {0} /\ \A i \in 1 .. 3 : utxo[i] \in F
  BY UtxoType, Numbers
<1>1. \A i \in 1 .. 3 : affine(utxo[i] + mask(h, iv, i), Q) \in F
  <2>. TAKE i \in 1 .. 3
  <2>1. utxo[i] + mask(h, iv, i) \in Int
    <3>1. utxo[i] \in Int
      BY <1>0 DEF F
    <3>. QED BY <3>1, MaskType
  <2>. QED BY <2>1, <1>0, AffineIsMod DEF F
<1>2. tail = [i \in 1 .. 3 |-> affine(utxo[i] + mask(h, iv, i), Q)]
  BY <1>0
<1>3. tail \in Seq(F) /\ Len(tail) = 3 /\ \A i \in 1 .. 3 : tail[i] = affine(utxo[i] + mask(h, iv, i), Q)
  <2>. HIDE DEF tail
  <2>. QED BY <1>1, <1>2
<1>4. head \in Seq(F) /\ Len(head) = 2 /\ head[1] = x /\ head[2] = iv
  OBVIOUS
<1>. HIDE DEF tail, head
<1>5. /\ words \in Seq(F) /\ Len(words) = Len(head) + Len(tail)
      /\ \A i \in 1 .. Len(head) + Len(tail) :
            words[i] = IF i <= Len(head) THEN head[i] ELSE tail[i - Len(head)]
  BY <1>3, <1>4, ConcatProperties
<1>6. words[1] = x /\ words[2] = iv /\ Len(words) = 5
  BY <1>3, <1>4, <1>5
<1>7. \A i \in 1 .. 3 : words[i + 2] = tail[i]
  <2>. TAKE i \in 1 .. 3
  <2>1. i + 2 \in 1 .. Len(head) + Len(tail) /\ ~(i + 2 <= Len(head)) /\ (i + 2) - Len(head) = i
    BY <1>3, <1>4
  <2>. QED BY <2>1, <1>5
<1>. QED BY <1>3, <1>5, <1>6, <1>7 DEF Ciphertext, tail, head, words

\* The words of a message come back from its bytes.
LEMMA WordsComeBack ==
    ASSUME NEW words \in Seq(F)
    PROVE  /\ deserializeMessage(serializeMessage(words)) = words
           /\ words # <<>> => serializeMessage(words) # <<>>
<1>1. /\ Q \in Nat \ {0} /\ WordSize \in Nat \ {0} /\ Q <= Power[WordSize]
      /\ Power[WordSize] \in Nat \ {0}
  BY Numbers, WordAssumption, FieldAssumption, PowerType
<1>2. words \in Seq(Nat) /\ \A k \in 1 .. Len(words) : words[k] \in F
  <2>1. F \subseteq Nat
    BY <1>1 DEF F
  <2>2. \A k \in 1 .. Len(words) : words[k] \in F
    BY ElementOfSeq
  <2>3. words = [k \in 1 .. Len(words) |-> words[k]] /\ Len(words) \in Nat
    OBVIOUS
  <2>4. \A k \in 1 .. Len(words) : words[k] \in Nat
    BY <2>1, <2>2
  <2>5. words \in Seq(Nat)
    BY <2>3, <2>4
  <2>. QED BY <2>2, <2>5
<1>3. \A k \in 1 .. Len(words) : words[k] % Power[WordSize] = words[k]
  <2>. TAKE k \in 1 .. Len(words)
  <2>. DEFINE x == words[k]
  <2>1. x \in F
    BY <1>2
  <2>. HIDE DEF x
  <2>2. x \in 0 .. Power[WordSize] - 1
    BY <2>1, <1>1 DEF F
  <2>3. x % Power[WordSize] = x
    BY <2>2, <1>1, FirstPlace
  <2>. QED BY <2>3 DEF x
<1>4. serializeMessage(words) = Text(words, WordSize)
  BY DEF serializeMessage, Text
<1>5. deserializeMessage(Text(words, WordSize)) = [k \in 1 .. Len(words) |-> words[k] % Power[WordSize]]
  BY <1>1, <1>2, ReadText DEF deserializeMessage
<1>6. words = [k \in 1 .. Len(words) |-> words[k]]
  OBVIOUS
<1>7. words # <<>> => serializeMessage(words) # <<>>
  <2>1. Len(Text(words, WordSize)) = WordSize * Len(words) /\ Text(words, WordSize) \in Seq(Bytes)
    BY <1>1, <1>2, TextOf
  <2>2. words # <<>> => Len(words) \in Nat \ {0}
    OBVIOUS
  <2>3. words # <<>> => WordSize * Len(words) # 0
    BY <1>1, <2>2
  <2>4. Len(<<>>) = 0
    OBVIOUS
  <2>. QED BY <1>4, <2>1, <2>3, <2>4
<1>. QED BY <1>3, <1>4, <1>5, <1>6, <1>7

\* With the secret of the sender the note is what was encrypted, and the digest
\* is that of the note.
LEMMA Decrypted ==
    ASSUME NEW utxo \in Utxos, NEW x \in F, NEW h \in F, NEW pk,
           decompress(x) # throws, ecdh(decompress(x), pk) = h
    PROVE  decrypt(Ciphertext(utxo, x, h, b2hash(utxo)), pk) = [checksum |-> TRUE, message |-> utxo]
<1>. DEFINE iv == b2hash(utxo)
            words == Ciphertext(utxo, x, h, iv)
            message == [i \in 1 .. Len(words) - 2 |-> affine(words[i + 2] - mask(h, iv, i), Q)]
<1>1. iv \in F
  BY Digests DEF Utxos
<1>. HIDE DEF iv
<1>2. /\ Len(words) = 5 /\ words[1] = x /\ words[2] = iv
      /\ \A i \in 1 .. 3 : words[i + 2] = affine(utxo[i] + mask(h, iv, i), Q)
  BY <1>1, EncryptedType
<1>. HIDE DEF words
<1>3. \A i \in 1 .. 3 : affine(words[i + 2] - mask(h, iv, i), Q) = utxo[i]
  <2>. TAKE i \in 1 .. 3
  <2>. DEFINE c == mask(h, iv, i)
              n == utxo[i]
  <2>1. c \in Int /\ n \in 0 .. Q - 1 /\ Q \in Nat \ {0}
    <3>1. utxo[i] \in F
      BY UtxoType
    <3>2. mask(h, iv, i) \in Nat
      BY <1>1, MaskType
    <3>. QED BY <3>1, <3>2, Numbers DEF F
  <2>2. words[i + 2] = affine(n + c, Q)
    BY <1>2
  <2>. HIDE DEF c, n
  <2>3. affine(affine(n + c, Q) - c, Q) = n
    BY <2>1, MaskCancels
  <2>. QED BY <2>2, <2>3 DEF c, n
<1>4. message = utxo
  <2>1. message = [i \in 1 .. 3 |-> affine(words[i + 2] - mask(h, iv, i), Q)]
    BY <1>2
  <2>2. utxo = [i \in 1 .. 3 |-> utxo[i]]
    BY UtxoType
  <2>. HIDE DEF message
  <2>. QED BY <2>1, <2>2, <1>3
<1>5. decrypt(words, pk) = [checksum |-> iv = b2hash(message), message |-> message]
  BY <1>2 DEF decrypt
<1>. HIDE DEF message
<1>6. decrypt(words, pk) = [checksum |-> TRUE, message |-> utxo]
  BY <1>4, <1>5 DEF iv
<1>. QED BY <1>6 DEF words, iv

\* Whatever a wallet makes of a message whose point it can find is a result.
LEMMA NoThrow ==
    ASSUME NEW words \in Seq(F), Len(words) = 5, NEW k \in 0 .. L - 1,
           decompress(words[1]) # throws, decompress(words[1]) \in curve
    PROVE  decrypt(words, k) # throws
<1>. DEFINE p == decompress(words[1])
            h == ecdh(p, k)
            iv == words[2]
            message == [i \in 1 .. Len(words) - 2 |-> affine(words[i + 2] - mask(h, iv, i), Q)]
<1>1. decrypt(words, k) = [checksum |-> iv = b2hash(message), message |-> message]
  BY DEF decrypt
<1>2. h \in F
  <2>1. k \in 0 .. Q - 1
    BY Numbers
  <2>2. mul(p, k) \in curve
    BY <2>1, MulIsMultiple
  <2>. QED BY <2>2, Coordinates DEF ecdh, F
<1>. HIDE DEF p, h
<1>3. \A i \in 1 .. 5 : words[i] \in F
  BY ElementOfSeq
<1>4. iv \in F
  <2>1. 2 \in 1 .. 5
    OBVIOUS
  <2>. QED BY <1>3, <2>1
<1>. HIDE DEF iv
<1>5. \A i \in 1 .. 3 : affine(words[i + 2] - mask(h, iv, i), Q) \in Int
  <2>. TAKE i \in 1 .. 3
  <2>. DEFINE c == mask(h, iv, i)
              n == words[i + 2]
  <2>1. n \in F
    <3>1. i + 2 \in 1 .. 5
      OBVIOUS
    <3>. QED BY <1>3, <3>1
  <2>2. c \in Nat
    BY <1>2, <1>4, MaskType
  <2>. HIDE DEF c, n
  <2>3. n - c \in Int /\ Q \in Nat \ {0}
    BY <2>1, <2>2, Numbers DEF F
  <2>4. affine(n - c, Q) \in 0 .. Q - 1
    BY <2>3, AffineIsMod
  <2>5. affine(n - c, Q) \in Int
    BY <2>3, <2>4
  <2>. QED BY <2>5 DEF c, n
<1>6. message \in Seq(Int)
  <2>1. message = [i \in 1 .. 3 |-> affine(words[i + 2] - mask(h, iv, i), Q)]
    OBVIOUS
  <2>. HIDE DEF message
  <2>. QED BY <2>1, <1>5
<1>. HIDE DEF message
<1>7. (iv = b2hash(message)) \in BOOLEAN
  OBVIOUS
<1>8. decrypt(words, k) \in [checksum : BOOLEAN, message : Seq(Int)]
  <2>. DEFINE t == iv = b2hash(message)
  <2>1. t \in BOOLEAN
    BY <1>7
  <2>. HIDE DEF t
  <2>2. [checksum |-> t, message |-> message] \in [checksum : BOOLEAN, message : Seq(Int)]
    BY <2>1, <1>6
  <2>. QED BY <2>2, <1>1 DEF t
<1>. QED BY <1>8, ThrowsAssumption

-----------------------------------------------------------------------------
\* A wallet, and the random number of a sender, have their point.
LEMMA Keys ==
    ASSUME NEW w \in Mnemonics
    PROVE  /\ privkey(w) \in 0 .. L - 1 /\ pubkey(w) = mul(G, privkey(w))
           /\ pubkey(w)[1] \in F
           /\ decompress(pubkey(w)[1]) = pubkey(w)
<1>1. privkey(w) \in 0 .. L - 1
  BY KeysAssumption
<1>2. mul(G, privkey(w)) \in curve /\ decompress(mul(G, privkey(w))[1]) = mul(G, privkey(w))
  <2>. DEFINE k == privkey(w)
  <2>1. k \in 0 .. L - 1
    BY <1>1
  <2>. HIDE DEF k
  <2>2. mul(G, k) \in curve /\ decompress(mul(G, k)[1]) = mul(G, k)
    BY <2>1, Decompressed
  <2>. QED BY <2>2 DEF k
<1>. QED BY <1>1, <1>2, Coordinates DEF pubkey, F

\* The note that was sent, for whom, and what it was encrypted with.
IsSent(s) ==
    \E to \in Mnemonics, utxo \in Utxos, pk \in 0 .. L - 1 :
        s = [to |-> to, utxo |-> utxo,
             words |-> Ciphertext(utxo, mul(G, pk)[1], ecdh(pubkey(to), pk), b2hash(utxo))]

EncInv ==
    /\ em = <<>> => DOMAIN read = {}
    /\ em # <<>> => IsSent(sent) /\ em = serializeMessage(sent.words)
    /\ \A w \in DOMAIN read :
          w \in Mnemonics /\ read[w] = decrypt(deserializeMessage(em), privkey(w))

LEMMA EncStart == EncInit => EncInv
BY DEF EncInit, EncInv

LEMMA SendKeeps ==
    ASSUME EncInv, encrypt_utxo
    PROVE  EncInv'
<1>1. em = <<>> /\ DOMAIN read = {} /\ read' = read
  BY DEF EncInv, encrypt_utxo
<1>2. PICK to \in Mnemonics, balance \in Amounts, secret \in Secrets, pk \in 0 .. L - 1 :
          LET x     == pubkey(to)[1]
              utxo  == <<balance, x, secret>>
              words == encrypt(utxo, decompress(x), pk)
          IN  /\ decompress(x) # throws
              /\ em' = serializeMessage(words)
              /\ sent' = [to |-> to, utxo |-> utxo, words |-> words]
  BY DEF encrypt_utxo
<1>. DEFINE x == pubkey(to)[1]
            utxo == <<balance, x, secret>>
            words == encrypt(utxo, decompress(x), pk)
<1>3. x \in F /\ decompress(x) = pubkey(to)
  BY Keys
<1>4. utxo \in Utxos
  BY <1>3 DEF Utxos
<1>5. em' = serializeMessage(words) /\ sent' = [to |-> to, utxo |-> utxo, words |-> words]
  BY <1>2
<1>. HIDE DEF x, utxo
<1>6. words = Ciphertext(utxo, mul(G, pk)[1], ecdh(pubkey(to), pk), b2hash(utxo))
  BY <1>3 DEF encrypt, Ciphertext
<1>. HIDE DEF words
<1>7. IsSent(sent') /\ em' = serializeMessage(sent'.words)
  BY <1>4, <1>5, <1>6 DEF IsSent
<1>8. em' # <<>> => IsSent(sent)' /\ em' = serializeMessage(sent'.words)
  BY <1>7 DEF IsSent
<1>. QED BY <1>1, <1>8 DEF EncInv

LEMMA ReadKeeps ==
    ASSUME EncInv, NEW wallet \in Mnemonics, Read(wallet)
    PROVE  EncInv'
<1>1. em # <<>> /\ em' = em /\ sent' = sent
  BY DEF Read
<1>2. read' = [w \in DOMAIN read \cup {wallet} |->
                   IF w = wallet THEN decrypt(deserializeMessage(em), privkey(wallet)) ELSE read[w]]
  BY DEF Read
<1>3. \A w \in DOMAIN read' :
          w \in Mnemonics /\ read'[w] = decrypt(deserializeMessage(em), privkey(w))
  BY <1>2 DEF EncInv
<1>4. \A w \in DOMAIN read' :
          w \in Mnemonics /\ read'[w] = decrypt(deserializeMessage(em'), privkey(w))
  BY <1>1, <1>3
<1>. QED BY <1>1, <1>4 DEF EncInv, IsSent

LEMMA EncStep == EncInv /\ [EncNext]_encVars => EncInv'
<1>. SUFFICES ASSUME EncInv, [EncNext]_encVars PROVE EncInv'
  OBVIOUS
<1>1. CASE encrypt_utxo
  BY <1>1, SendKeeps
<1>2. ASSUME NEW wallet \in Mnemonics, Read(wallet) PROVE EncInv'
  BY <1>2, ReadKeeps
<1>3. CASE UNCHANGED encVars
  BY <1>3 DEF encVars, EncInv, IsSent
<1>. QED BY <1>1, <1>2, <1>3 DEF EncNext

LEMMA EncInvariant == EncSpec => []EncInv
BY EncStart, EncStep, PTL DEF EncSpec

\* What a wallet reads is the message of the sender.
LEMMA ReadsTheMessage ==
    ASSUME EncInv, em # <<>>
    PROVE  \E to \in Mnemonics, utxo \in Utxos, pk \in 0 .. L - 1 :
              LET words == Ciphertext(utxo, mul(G, pk)[1], ecdh(pubkey(to), pk), b2hash(utxo))
              IN  /\ sent = [to |-> to, utxo |-> utxo, words |-> words]
                  /\ words \in Seq(F) /\ Len(words) = 5 /\ words[1] = mul(G, pk)[1]
                  /\ mul(G, pk)[1] \in F /\ ecdh(pubkey(to), pk) \in F
                  /\ \A w \in DOMAIN read : w \in Mnemonics /\ read[w] = decrypt(words, privkey(w))
<1>1. PICK to \in Mnemonics, utxo \in Utxos, pk \in 0 .. L - 1 :
          sent = [to |-> to, utxo |-> utxo,
                  words |-> Ciphertext(utxo, mul(G, pk)[1], ecdh(pubkey(to), pk), b2hash(utxo))]
  BY DEF EncInv, IsSent
<1>. DEFINE x == mul(G, pk)[1]
            h == ecdh(pubkey(to), pk)
            iv == b2hash(utxo)
            words == Ciphertext(utxo, x, h, iv)
<1>2. x \in F
  <2>1. mul(G, pk) \in curve
    BY Decompressed
  <2>. QED BY <2>1, Coordinates DEF F
<1>3. h \in F
  <2>. DEFINE k == privkey(to)
  <2>1. k \in 0 .. L - 1 /\ pubkey(to) = mul(G, k)
    BY Keys
  <2>. HIDE DEF k
  <2>2. mul(mul(G, k), pk) \in curve
    BY <2>1, KeysAgree
  <2>. QED BY <2>1, <2>2, Coordinates DEF ecdh, F
<1>4. iv \in F
  BY Digests DEF Utxos
<1>. HIDE DEF x, h, iv
<1>5. words \in Seq(F) /\ Len(words) = 5 /\ words[1] = x
  BY <1>2, <1>3, <1>4, EncryptedType
<1>6. em = serializeMessage(words)
  <2>1. em = serializeMessage(sent.words)
    BY DEF EncInv
  <2>. QED BY <1>1, <2>1 DEF x, h, iv
<1>. HIDE DEF words
<1>7. deserializeMessage(em) = words
  BY <1>5, <1>6, WordsComeBack
<1>8. \A w \in DOMAIN read : w \in Mnemonics /\ read[w] = decrypt(words, privkey(w))
  BY <1>7 DEF EncInv
<1>. QED BY <1>1, <1>2, <1>3, <1>5, <1>8 DEF x, h, iv, words

\* Whatever the random number, the wallet a note is for decrypts exactly that
\* note and accepts it, although sender and receiver each know x of the other's
\* key only.
THEOREM OwnerReadsAlways == EncSpec => []OwnerReads
<1>1. EncInv => OwnerReads
  <2>. SUFFICES ASSUME EncInv, NEW w \in DOMAIN read, w = sent.to
                PROVE  read[w] = [checksum |-> TRUE, message |-> sent.utxo]
    BY DEF OwnerReads
  <2>1. em # <<>>
    BY DEF EncInv
  <2>2. PICK to \in Mnemonics, utxo \in Utxos, pk \in 0 .. L - 1 :
              LET words == Ciphertext(utxo, mul(G, pk)[1], ecdh(pubkey(to), pk), b2hash(utxo))
              IN  /\ sent = [to |-> to, utxo |-> utxo, words |-> words]
                  /\ words \in Seq(F) /\ Len(words) = 5 /\ words[1] = mul(G, pk)[1]
                  /\ mul(G, pk)[1] \in F /\ ecdh(pubkey(to), pk) \in F
                  /\ \A v \in DOMAIN read : v \in Mnemonics /\ read[v] = decrypt(words, privkey(v))
    BY <2>1, ReadsTheMessage
  <2>. DEFINE x == mul(G, pk)[1]
              h == ecdh(pubkey(to), pk)
              k == privkey(to)
  <2>3. w = to /\ sent.utxo = utxo /\ x \in F /\ h \in F
        /\ read[to] = decrypt(Ciphertext(utxo, x, h, b2hash(utxo)), k)
    BY <2>2
  <2>4. k \in 0 .. L - 1 /\ pubkey(to) = mul(G, k)
    BY Keys
  <2>5. decompress(x) # throws /\ decompress(x) = mul(G, pk)
    BY Decompressed
  <2>6. ecdh(decompress(x), k) = h
    <3>. HIDE DEF k, x
    <3>1. mul(mul(G, pk), k) = mul(mul(G, k), pk)
      BY <2>4, KeysAgree
    <3>. QED BY <2>4, <2>5, <3>1 DEF ecdh
  <2>. HIDE DEF x, h, k
  <2>7. decrypt(Ciphertext(utxo, x, h, b2hash(utxo)), k) = [checksum |-> TRUE, message |-> utxo]
    BY <2>3, <2>5, <2>6, Decrypted
  <2>. QED BY <2>3, <2>7
<1>. QED BY <1>1, EncInvariant, PTL

\* In both byte orders a buffer of n bytes gives back the words of a message
\* modulo 256^n.
THEOREM BytesRoundTripAlways == EncSpec => []BytesRoundTrip
<1>1. EncInv => BytesRoundTrip
  <2>. SUFFICES ASSUME EncInv, em # <<>>,
                       NEW i \in DOMAIN sent.words, NEW n \in 1 .. WordSize
                PROVE  /\ buff2bigintLe(bigint2buffLe(sent.words[i], n)) = sent.words[i] % Power[n]
                       /\ buff2bigintBe(bigint2buffBe(sent.words[i], n)) = sent.words[i] % Power[n]
    BY DEF BytesRoundTrip
  <2>1. sent.words \in Seq(F)
    BY ReadsTheMessage
  <2>. DEFINE word == sent.words[i]
  <2>2. word \in F
    BY <2>1
  <2>. HIDE DEF word
  <2>3. word \in Nat /\ n \in Nat
    BY <2>2, Numbers, WordAssumption DEF F
  <2>4. /\ buff2bigintLe(bigint2buffLe(word, n)) = word % Power[n]
        /\ buff2bigintBe(bigint2buffBe(word, n)) = word % Power[n]
    BY <2>3, RoundTrip
  <2>. QED BY <2>4 DEF word
<1>. QED BY <1>1, EncInvariant, PTL

\* No wallet, whether the message is for it or not, throws out of the loop of
\* syncData() over an honest message.
THEOREM NoReaderThrowsEver == EncSpec => []NoReaderThrows
<1>1. EncInv => NoReaderThrows
  <2>. SUFFICES ASSUME EncInv, NEW w \in DOMAIN read PROVE read[w] # throws
    BY DEF NoReaderThrows
  <2>1. em # <<>>
    BY DEF EncInv
  <2>2. PICK to \in Mnemonics, utxo \in Utxos, pk \in 0 .. L - 1 :
              LET words == Ciphertext(utxo, mul(G, pk)[1], ecdh(pubkey(to), pk), b2hash(utxo))
              IN  /\ sent = [to |-> to, utxo |-> utxo, words |-> words]
                  /\ words \in Seq(F) /\ Len(words) = 5 /\ words[1] = mul(G, pk)[1]
                  /\ mul(G, pk)[1] \in F /\ ecdh(pubkey(to), pk) \in F
                  /\ \A v \in DOMAIN read : v \in Mnemonics /\ read[v] = decrypt(words, privkey(v))
    BY <2>1, ReadsTheMessage
  <2>. DEFINE words == Ciphertext(utxo, mul(G, pk)[1], ecdh(pubkey(to), pk), b2hash(utxo))
              k == privkey(w)
  <2>3. words \in Seq(F) /\ Len(words) = 5 /\ words[1] = mul(G, pk)[1]
        /\ w \in Mnemonics /\ read[w] = decrypt(words, k)
    BY <2>2
  <2>4. k \in 0 .. L - 1
    BY <2>3, Keys
  <2>. HIDE DEF words, k
  <2>5. decompress(words[1]) # throws /\ decompress(words[1]) \in curve
    BY <2>3, Decompressed
  <2>. QED BY <2>3, <2>4, <2>5, NoThrow
<1>. QED BY <1>1, EncInvariant, PTL
=============================================================================
