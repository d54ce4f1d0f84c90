------------------------------ MODULE MCGroth16 -------------------------------
EXTENDS Groth16

\* Every small circuit, with up to two coefficients per polynomial.
MCPolynomials == {{}, {0}, {0, 1}}
MCProvingKeys ==
    {k \in UNION {[nVars : {n}, nPublic : 0 .. n - 1, domainSize : {1, 2},
                   polsA : [0 .. n - 1 -> MCPolynomials],
                   polsB : [0 .. n - 1 -> MCPolynomials]] : n \in 1 .. 3} :
        \* the polynomials of the largest ones are empty or full
        k.nVars = 3 => \A n \in 0 .. 2 : {k.polsA[n], k.polsB[n]} \subseteq {{}, {0, 1}}}

\* y^2 = x^3 + 3 over the field of 7 has 13 points, as bn254 a prime number;
\* b2 is 3 / (9 + u).
MCb2 == <<4, 5>>

somePoint  == CHOOSE p \in points1 : TRUE
somePoint2 == CHOOSE p \in points2 : p[1] # <<0, 0>>

\* Every combination of points for one circuit, one for the others.
MCproofs(key) ==
    IF key.nVars = 1 /\ key.domainSize = 1 /\ key.polsA[0] = {} /\ key.polsB[0] = {}
    THEN [pi_a : points1, pi_b : points2, pi_c : {somePoint}]
    ELSE {[pi_a |-> somePoint, pi_b |-> somePoint2, pi_c |-> somePoint]}

MCverifyingKey(key) ==
    [vk_alfa_1 |-> somePoint, vk_beta_2 |-> somePoint2, vk_gamma_2 |-> somePoint2,
     vk_delta_2 |-> somePoint2,
     IC |-> SubSeq(<<somePoint, sum(somePoint, somePoint), times(somePoint, 5)>>, 1, key.nPublic + 1)]
=============================================================================
