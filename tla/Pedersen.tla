------------------------------- MODULE Pedersen -------------------------------
(***************************************************************************)
(* The hash functions of zksnark/src/utils.js down to the scalars by which *)
(* pedersenHash multiplies its base points: one per segment of the input.  *)
(* Nobody finds a collision of the sum of points that is not a collision   *)
(* of the scalars; that the scalars have none is arithmetic, done here.    *)
(***************************************************************************)
EXTENDS Int32, SequencesExt

CONSTANTS
    BitsPerByte,            \* 8
    windowSize,             \* bits of a window, 4
    nWindowsPerSegment,     \* 50
    subOrder,               \* order of the base points
    BalanceBits,            \* 64
    FieldBits               \* 253

two[n \in Nat] == IF n = 0 THEN 1 ELSE 2 * two[n - 1]       \* 1 << n

ASSUME WindowsAssumption ==
    /\ BitsPerByte \in Nat \ {0} /\ Byte = two[BitsPerByte]
    /\ windowSize \in Nat \ {0, 1}
    /\ nWindowsPerSegment \in Nat \ {0}
    /\ BalanceBits \in Nat \ {0}
    /\ FieldBits \in Nat \ {0}

\* The order of the base points is above what the digits of a segment fill: with
\* 50 windows of 4 bits, 2^250.
ASSUME OrderAssumption ==
    subOrder \in Nat /\ two[(windowSize + 1) * nWindowsPerSegment] <= subOrder

\* Inputs of the hash functions that differ in length differ in windows: 64 of
\* them, 127 or 143.
ASSUME LengthsAssumption ==
    LET windows(length) == (length - 1) \div windowSize
    IN  /\ windows(FieldBits) < windows(2 * FieldBits)
        /\ windows(2 * FieldBits) < windows(BalanceBits + 2 * FieldBits)

VARIABLES a, b              \* two calls of a hash function, <<>> before they are made

hashVars == <<a, b>>

-----------------------------------------------------------------------------
positiveLimb(limb, j) == shiftRight(limb % (Limb \div 2), j)    \* mutant: limbs of 31 bits
byteOfLimb(limb, j) == shiftRight(limb, j)                      \* limb >> 8 * j

\* The low s bits of n, limb by limb, each limb byte by byte.
leIntToBits(n, s) ==
    LET bit(k) ==
            LET limb == (n \div Power[4 * (k \div (4 * BitsPerByte))]) % Limb
                byte == byteOfLimb(limb, (k \div BitsPerByte) % 4)
            IN  (byte \div two[k % BitsPerByte]) % 2
    IN  [i \in 1 .. s |-> bit(i - 1)]

bitsPerSegment == windowSize * nWindowsPerSegment

nSegments(bits) == (Len(bits) - 1) \div bitsPerSegment + 1

nWindows(bits, s) ==
    IF s = nSegments(bits) - 1 THEN (Len(bits) - s * bitsPerSegment - 1) \div windowSize + 1
    ELSE nWindowsPerSegment

addUp(start, terms) == FoldLeft(LAMBDA sum, term : sum + term, start, terms)

\* A digit 1 .. 2^(windowSize - 1) from all bits of a window but the last,
\* which is its sign; what is beyond the input counts as zero.
digit(bits, o) ==
    LET at(i) == IF i <= Len(bits) THEN bits[i] ELSE 0
        acc   == addUp(1, [i \in 1 .. windowSize - 1 |-> at(o + i) * two[i - 1]])
    IN  IF at(o + windowSize) = 1 THEN -acc ELSE acc

tight(w) == two[windowSize * w]         \* mutant: no room for the sign
exp(w)   == two[(windowSize + 1) * w]

escalar(bits, s) ==
    LET sum == addUp(0, [w \in 1 .. nWindows(bits, s) |->
                            digit(bits, s * bitsPerSegment + (w - 1) * windowSize) * exp(w - 1)])
    IN  IF sum < 0 THEN subOrder + sum ELSE sum

\* What the base points of pedersenHash(bits) are multiplied by.
scalars(bits) == [s \in 0 .. nSegments(bits) - 1 |-> escalar(bits, s)]

-----------------------------------------------------------------------------
\* The inputs of the hash functions: hash(v) and hash253(v), compress(v1, v2)
\* and compress253(v1, v2), UTXOhasher({balance, pubkey, secret}).
Elements == 0 .. two[FieldBits] - 1
Balances == 0 .. two[BalanceBits] - 1

Calls == {<<v>> : v \in Elements}
             \cup (Elements \X Elements)
             \cup (Balances \X Elements \X Elements)

width(call, i) == IF Len(call) = 3 /\ i = 1 THEN BalanceBits ELSE FieldBits

bitsOf(call) == FlattenSeq([i \in DOMAIN call |-> leIntToBits(call[i], width(call, i))])

HashInit == a = <<>> /\ b = <<>>

FirstHash  == a = <<>> /\ a' \in Calls /\ UNCHANGED b
SecondHash == a # <<>> /\ b = <<>> /\ b' \in Calls /\ UNCHANGED a

HashSpec == HashInit /\ [][FirstHash \/ SecondHash]_hashVars

-----------------------------------------------------------------------------
\* Different inputs, also of different functions, have different scalars: a
\* note has one hash and one nullifier, and the secret drawn from an entropy
\* is nobody's nullifier, unless the curve itself is broken.
ScalarsTellApart ==
    (b # <<>> /\ a # b) => scalars(bitsOf(a)) # scalars(bitsOf(b))

\* leIntToBits gives the lowest s binary digits, as the circuits decompose
\* their signals, also of a number with several limbs.
BitsAreDigits ==
    (a # <<>> /\ b = <<>>) =>
        LET n == a[1] + Limb * a[Len(a)]
        IN  \A s \in 1 .. 2 * FieldBits :
                addUp(0, [j \in 1 .. s |-> leIntToBits(n, s)[j] * two[j - 1]]) = n % two[s]
=============================================================================
