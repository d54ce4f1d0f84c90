-------------------------------- MODULE Points --------------------------------
(***************************************************************************)
(* The two fields of zkgo and the groups over them.  An element of fp is a *)
(* number below the modulus (its Montgomery form is left out), one of fp2  *)
(* a pair c0 + c1 * u with u^2 = -1.                                       *)
(***************************************************************************)
EXTENDS Integers, Sequences

CONSTANTS
    modulus,
    b, b2,          \* y^2 = x^3 + b over fp, y^2 = x^3 + b2 over fp2
    FlagBit,        \* 2^254
    error

ASSUME ModulusAssumption ==
    modulus \in Nat /\ modulus % 4 = 3 /\ FlagBit \in Nat /\ modulus <= FlagBit

fp  == 0 .. modulus - 1
fp2 == fp \X fp

\* 3 and 3 / (9 + u).
ASSUME CurvesAssumption == b \in fp \ {0} /\ b2 \in fp2 \ {<<0, 0>>}

add(x, y) == (x + y) % modulus
mul(x, y) == (x * y) % modulus
neg(x)    == (-x) % modulus

exp(x, e) == LET power[n \in Nat] == IF n = 0 THEN 1 ELSE mul(power[n - 1], x) IN power[e]

\* Of zero it is zero.
inverse(x) == exp(x, modulus - 2)

sqrt(x) ==
    LET c == exp(x, (modulus + 1) \div 4) IN IF mul(c, c) = x THEN c ELSE error

signBE(x) == neg(x) >= x

toBytes(x)   == <<x>>
fromBytes(w) == IF w[1] < modulus THEN w[1] ELSE error

-----------------------------------------------------------------------------
add2(x, y) == <<add(x[1], y[1]), add(x[2], y[2])>>
mul2(x, y) == <<add(mul(x[1], y[1]), neg(mul(x[2], y[2]))), add(mul(x[1], y[2]), mul(x[2], y[1]))>>
neg2(x)    == <<neg(x[1]), neg(x[2])>>

exp2(x, e) == LET power[n \in Nat] == IF n = 0 THEN <<1, 0>> ELSE mul2(power[n - 1], x) IN power[e]

inverse2(x) ==
    LET t == inverse(add(mul(x[1], x[1]), mul(x[2], x[2])))
    IN  <<mul(x[1], t), neg(mul(x[2], t))>>

sqrt2(x) ==
    LET a1    == exp2(x, (modulus - 3) \div 4)
        alpha == mul2(mul2(a1, a1), x)
        x0    == mul2(a1, x)
        c     == mul2(exp2(add2(alpha, <<1, 0>>), (modulus - 1) \div 2), x0)
    IN  IF alpha = <<modulus - 1, 0>> THEN <<neg(x0[2]), x0[1]>>
        ELSE IF mul2(c, c) = x THEN c
        ELSE error

signOfHigh(x) == signBE(x[2])       \* mutant: the other coordinate is not looked at
signBE2(x) == IF x[2] # 0 THEN signBE(x[2]) ELSE signBE(x[1])

toBytes2(x)   == <<x[2], x[1]>>
fromBytes2(w) ==
    IF w[1] >= modulus \/ w[2] >= modulus THEN error ELSE <<w[2], w[1]>>

\* The modulus is a prime: the powers that sqrt and sqrt2 compute are one of the
\* two roots of a square.
ASSUME RootsAssumption ==
    /\ \A y \in fp : sqrt(mul(y, y)) \in {y, neg(y)}
    /\ \A y \in fp2 : sqrt2(mul2(y, y)) \in {y, neg2(y)}

\* An error is no result.
ASSUME ErrorAssumption ==
    /\ error \notin fp /\ error \notin fp2
    /\ error \notin fp \X fp \X fp /\ error \notin fp2 \X fp2 \X fp2

-----------------------------------------------------------------------------
G1 == INSTANCE Curve WITH zero <- 0, one <- 1

G2 == INSTANCE Curve WITH
          zero <- <<0, 0>>, one <- <<1, 0>>, b <- b2,
          add <- add2, mul <- mul2, neg <- neg2, inverse <- inverse2,
          sqrt <- sqrt2, signBE <- signBE2, toBytes <- toBytes2, fromBytes <- fromBytes2
=============================================================================
