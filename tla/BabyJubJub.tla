------------------------------ MODULE BabyJubJub ------------------------------
(***************************************************************************)
(* The twisted Edwards curve of zcrypto/src/babyJubJub.js: points as pairs *)
(* <<x, y>>, compression to x alone, and the keys made of a mnemonic.  The *)
(* curve's numbers are parameters, so that a small curve stands for it.    *)
(***************************************************************************)
EXTENDS Integers, FiniteSetsExt

CONSTANTS
    A, D,               \* A x^2 + y^2 = 1 + D x^2 y^2
    Q,                  \* prime order of the field
    L,                  \* prime order of the subgroup of G
    G,                  \* its generator
    PubkeyLimit,        \* 2^253
    sha256(_, _),       \* mnemonic, offset -> the digest as a number
    throws              \* the outcome of a call that throws

\* % of bigints takes the sign of its first operand.
rem(x, m) == IF x >= 0 THEN x % m ELSE -((-x) % m)

affine(x, m) == rem(rem(x, m) + m, m)

egcd[a \in Nat] ==
    [b \in Nat |->
        IF a = 0 THEN <<b, 0, 1>>
        ELSE LET e == egcd[b % a][a] IN <<e[1], e[3] - (b \div a) * e[2], e[2]>>]

modinv(a) ==
    LET e == egcd[affine(a, Q)][Q] IN IF e[1] = 1 THEN rem(e[2], Q) ELSE throws

add(p, q) ==
    LET dxy == D * p[1] * q[1] * p[2] * q[2]
    IN  <<affine((p[1] * q[2] + q[1] * p[2]) * modinv(1 + dxy), Q),
          affine((p[2] * q[2] - A * p[1] * q[1]) * modinv(1 - dxy), Q)>>

incurve(p) ==
    LET x2 == p[1] * p[1]
        y2 == p[2] * p[2]
    IN  rem(A * x2 + y2 - 1 - D * x2 * y2, Q) = 0

curve == {p \in (0 .. Q - 1) \X (0 .. Q - 1) : incurve(p)}

\* Double and add over the bits of the scalar, which is reduced to the field.
\* It is called with points of the curve only.
mul(p, scalar) ==
    LET _mul[b \in Nat] ==
            [a \in curve |->
                IF b = 0 THEN <<0, 1>>
                ELSE LET rest == _mul[b \div 2][add(a, a)]
                     IN  IF b % 2 = 0 THEN rest ELSE add(a, rest)]
    IN  _mul[affine(scalar, Q)][p]

iszero(p) == p[1] % Q = 0 /\ (p[2] - 1) % Q = 0

anyPoint(p) == incurve(p)       \* mutant: the order of the point is not tested
insubgroup(p) == incurve(p) /\ iszero(mul(p, L))

-----------------------------------------------------------------------------
powm(base, exponent, modulus) ==
    LET pow[b \in Nat, e \in Nat] ==
            IF e = 0 THEN 1
            ELSE ((IF e % 2 = 1 THEN b ELSE 1) * pow[(b * b) % modulus, e \div 2]) % modulus
    IN  pow[base, exponent]

legendre(a, p) == powm(a, (p - 1) \div 2, p)

\* q and s of p - 1 = q * 2^s.
oddPart[n \in Nat] ==
    IF n % 2 # 0 THEN <<n, 0>> ELSE LET o == oddPart[n \div 2] IN <<o[1], o[2] + 1>>

\* The number of squarings that make t one: i of the inner loop of tonelli.
squarings(t, m, p) ==
    LET S == {i \in 1 .. m - 1 : powm(t, 2^i, p) = 1}
    IN  IF S = {} THEN m - 1 ELSE Min(S)

\* A square root of n modulo p.
tonelli(n, p) ==
    LET q == oddPart[p - 1][1]
        s == oddPart[p - 1][2]
        z == Min({k \in 2 .. p - 1 : legendre(k, p) = p - 1})
        root[r \in Nat, t \in Nat, c \in Nat, m \in Nat] ==
            IF t % p = 1 THEN r
            ELSE LET i == squarings(t, m, p)
                     b == powm(c, 2^(m - i - 1), p)
                 IN  root[(r * b) % p, (t * b * b) % p, (b * b) % p, i]
    IN  IF legendre(n, p) # 1 THEN throws
        ELSE IF s = 1 THEN powm(n, (p + 1) \div 4, p)
        ELSE root[powm(n, (q + 1) \div 2, p), powm(n, q, p), powm(z, q, p), s]

firstRoot(x, y) == IF insubgroup(<<x, y>>) THEN <<x, y>> ELSE throws    \* mutant: one root is tried
ofRoots(x, y) ==
    IF insubgroup(<<x, y>>) THEN <<x, y>>
    ELSE IF insubgroup(<<x, affine(-y, Q)>>) THEN <<x, affine(-y, Q)>>
    ELSE throws

\* y of a point with this x, by the equation of the curve.
rootAt(x) ==
    LET x2 == affine(x * x, Q)
    IN  tonelli(affine((A * x2 - 1) * modinv(D * x2 - 1), Q), Q)

\* The point of the subgroup with this x.
decompress(x) ==
    LET y == rootAt(x) IN IF y = throws THEN throws ELSE ofRoots(x, y)

-----------------------------------------------------------------------------
\* The first digest whose public key has an x of 253 bits.
privkey(mnemonic) ==
    LET pk(offset) == affine(sha256(mnemonic, offset), L)
        from[offset \in Nat] ==
            IF mul(G, pk(offset))[1] < PubkeyLimit THEN pk(offset) ELSE from[offset + 1]
    IN  from[0]

pubkey(mnemonic) == mul(G, privkey(mnemonic))
=============================================================================
