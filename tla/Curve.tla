-------------------------------- MODULE Curve ---------------------------------
(***************************************************************************)
(* A group of points y^2 = x^3 + b of zkgo, G1 or G2 according to the      *)
(* field: g1.go and g2.go are the same program over two of them.  A point  *)
(* is <<x, y, z>> in Jacobian coordinates; z = 0 is the point at infinity. *)
(* In bytes it is x alone, in words of 32 bytes, and two bits on top.      *)
(***************************************************************************)
EXTENDS Integers, Sequences, SequencesExt

CONSTANTS
    zero, one, b,                       \* elements of the field
    add(_, _), mul(_, _), neg(_), inverse(_),
    sqrt(_),                            \* a root, or "error"
    signBE(_),                          \* y is the smaller one of y and -y
    toBytes(_), fromBytes(_),           \* element -> words, and back or "error"
    FlagBit,                            \* 2^254, above the words of an element
    error                               \* what Go returns as its second result

sub(x, y) == add(x, neg(y))
square(x) == mul(x, x)
double(x) == add(x, x)

Zero      == <<zero, one, zero>>
IsZero(p) == p[3] = zero

Affine(p) ==
    IF IsZero(p) THEN p
    ELSE LET t == inverse(p[3])
         IN  <<mul(p[1], square(t)), mul(p[2], mul(t, square(t))), one>>

\* For z = 1, as FromBytes calls it.
IsOnCurve(p) == square(p[2]) = add(mul(square(p[1]), p[1]), b)

\* Two elements uncompressed; a pair of zeros stands for infinity.
FromBytes(in0, in1) ==
    LET x == fromBytes(in0)
        y == fromBytes(in1)
    IN  IF x = error \/ y = error THEN error
        ELSE IF x = zero /\ y = zero THEN Zero
        ELSE IF IsOnCurve(<<x, y, one>>) THEN <<x, y, one>>
        ELSE error

infinity(words) == [k \in DOMAIN words |-> IF k = 1 THEN 3 * FlagBit ELSE 0]

ToCompressed(p) ==
    LET a   == Affine(p)
        out == toBytes(a[1])
    IN  IF IsZero(a) THEN infinity(out)
        ELSE [out EXCEPT ![1] = @ + IF signBE(a[2]) THEN 0 ELSE 2 * FlagBit]

FromCompressed(in) ==
    LET x == fromBytes([in EXCEPT ![1] = @ % FlagBit])
        y == sqrt(add(mul(square(x), x), b))
        a == in[1] \div FlagBit >= 2
    IN  IF (in[1] \div FlagBit) % 2 = 1 THEN IF in = infinity(in) THEN Zero ELSE error
        ELSE IF x = error THEN error
        ELSE IF y = error THEN error
        ELSE <<x, IF signBE(y) = a THEN neg(y) ELSE y, one>>

-----------------------------------------------------------------------------
Double(p) ==
    IF IsZero(p) THEN p
    ELSE LET A  == square(p[1])
             B  == square(p[2])
             C  == square(B)
             D  == double(sub(sub(square(add(p[1], B)), A), C))
             E  == add(double(A), A)
             x3 == sub(square(E), double(D))
         IN  <<x3, sub(mul(E, sub(D, x3)), double(double(double(C)))), double(mul(p[2], p[3]))>>

opposite(p, sameY) == Zero      \* mutant: two points of one x are taken for opposite ones
equalX(p, sameY) == IF sameY THEN Double(p) ELSE Zero

Add(p1, p2) ==
    IF IsZero(p1) THEN p2
    ELSE IF IsZero(p2) THEN p1
    ELSE LET Z1Z1 == square(p1[3])
             Z2Z2 == square(p2[3])
             U1   == mul(p1[1], Z2Z2)
             U2   == mul(p2[1], Z1Z1)
             S1   == mul(p1[2], mul(p2[3], Z2Z2))
             S2   == mul(p2[2], mul(p1[3], Z1Z1))
             H    == sub(U2, U1)
             I    == square(double(H))
             J    == mul(H, I)
             R    == double(sub(S2, S1))
             V    == mul(U1, I)
             x3   == sub(sub(square(R), J), double(V))
         IN  IF U1 = U2 THEN equalX(p1, S1 = S2)
             ELSE <<x3,
                    sub(mul(R, sub(V, x3)), double(mul(S1, J))),
                    mul(sub(sub(square(add(p1[3], p2[3])), Z1Z1), Z2Z2), H)>>

\* From the lowest bit of e on.
MulScalar(p, e) ==
    LET BitLen == CHOOSE l \in 0 .. e : e < 2^l /\ (l = 0 \/ 2^(l - 1) <= e)
    IN  FoldLeft(LAMBDA s, k : [q |-> IF (e \div 2^(k - 1)) % 2 = 1 THEN Add(s.q, s.n) ELSE s.q,
                                n |-> Double(s.n)],
                 [q |-> <<zero, zero, zero>>, n |-> p],
                 [k \in 1 .. BitLen |-> k]).q
=============================================================================
