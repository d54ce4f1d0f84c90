------------------------------- MODULE Groth16 --------------------------------
(***************************************************************************)
(* A proof from the prover of a client to a verifier: buildpkey.js writes  *)
(* the proving key for the prover in wasm (ProvingKey), utils.js of        *)
(* zksnark compresses the three points of its proof with zkgo, and the     *)
(* verifier of zkgo gets proof and verifying key back from their bytes and *)
(* adds up the public inputs.                                              *)
(***************************************************************************)
EXTENDS ProvingKey, Points, SequencesExt

\* Points of the curves in their JavaScript form, which has no infinity.
points1 == {p \in fp \X fp : G1!IsOnCurve(<<p[1], p[2], 1>>)}
points2 == {p \in fp2 \X fp2 : G2!IsOnCurve(<<p[1], p[2], <<1, 0>>>>)}

CONSTANTS
    proofs(_),          \* proving key -> proofs that wasmgroth.proof may return
    verifyingKey(_),    \* proving key -> the verifying key of the same setup
    Inputs              \* values of a public signal

\* The prover and the setup return points of the curves, the setup one for each
\* public signal and one more.
ASSUME SetupAssumption ==
    \A key \in ProvingKeys :
        LET vk == verifyingKey(key)
        IN  /\ \A p \in proofs(key) : {p.pi_a, p.pi_c} \subseteq points1 /\ p.pi_b \in points2
            /\ vk.vk_alfa_1 \in points1
            /\ {vk.vk_beta_2, vk.vk_gamma_2, vk.vk_delta_2} \subseteq points2
            /\ vk.IC \in Seq(points1) /\ Len(vk.IC) = key.nPublic + 1

VARIABLES
    proof,              \* what the client sends: points, signals and bytes
    verifier            \* what ProofVerify knows of it

grothVars == <<pkeyVars, proof, verifier>>

none == [state |-> "none"]

-----------------------------------------------------------------------------
\* zkgo/index.go panics where FromBytes fails.
g1ToBuff(p) == G1!ToCompressed(G1!FromBytes(<<p[1]>>, <<p[2]>>))

g2ToBuff(p) == G2!ToCompressed(G2!FromBytes(<<p[1][2], p[1][1]>>, <<p[2][2], p[2][1]>>))

serializeProof(p) == g1ToBuff(p.pi_a) \o g2ToBuff(p.pi_b) \o g1ToBuff(p.pi_c)

serializeVK(vk) ==
    g1ToBuff(vk.vk_alfa_1)
        \o g2ToBuff(vk.vk_beta_2) \o g2ToBuff(vk.vk_gamma_2) \o g2ToBuff(vk.vk_delta_2)
        \o FlattenSeq([k \in DOMAIN vk.IC |-> g1ToBuff(vk.IC[k])])

GetProofFromCompressed(in) ==
    [A |-> G1!FromCompressed(SubSeq(in, 1, 1)),
     B |-> G2!FromCompressed(SubSeq(in, 2, 3)),
     C |-> G1!FromCompressed(SubSeq(in, 4, 4))]

GetVerificationKeyFromCompressed(in) ==
    [AlphaG1 |-> G1!FromCompressed(SubSeq(in, 1, 1)),
     BetaG2  |-> G2!FromCompressed(SubSeq(in, 2, 3)),
     GammaG2 |-> G2!FromCompressed(SubSeq(in, 4, 5)),
     DeltaG2 |-> G2!FromCompressed(SubSeq(in, 6, 7)),
     Ic      |-> [k \in 1 .. Len(in) - 7 |-> G1!FromCompressed(SubSeq(in, 7 + k, 7 + k))]]

-----------------------------------------------------------------------------
GrothInit == PkeyInit /\ proof = none /\ verifier = none

BuildKey == PkeyNext /\ UNCHANGED <<proof, verifier>>

\* wasmgroth.proof with the finished buffer, and depositProof and the like.
Prove ==
    /\ section = "end" /\ proof = none
    /\ \E p \in proofs(provingKey), inputs \in [1 .. provingKey.nPublic -> Inputs] :
          proof' = [state |-> "sent", points |-> p, publicSignals |-> inputs,
                    bytes |-> serializeProof(p)]
    /\ UNCHANGED <<pkeyVars, verifier>>

\* Groth16Verify: the lengths are compared, the bytes are read, and
\* ProofVerify starts its sum.
Receive ==
    /\ proof # none /\ verifier = none
    /\ LET vk     == serializeVK(verifyingKey(provingKey))
           inputs == proof.publicSignals
           vkT    == GetVerificationKeyFromCompressed(vk)
           proofT == GetProofFromCompressed(proof.bytes)
           read1  == {proofT.A, proofT.C, vkT.AlphaG1} \cup Range(vkT.Ic)
           read2  == {proofT.B, vkT.BetaG2, vkT.GammaG2, vkT.DeltaG2}
       IN  verifier' =
               IF \/ Len(vk) # Len(inputs) + 8 \/ Len(proof.bytes) # 4
                  \/ error \in read1 \/ error \in read2
               THEN [state |-> "refused"]
               ELSE [state |-> "adding", proof |-> proofT, vk |-> vkT, vkX |-> vkT.Ic[1], i |-> 0]
    /\ UNCHANGED <<pkeyVars, proof>>

\* A round of the loop over the inputs.
AddInput ==
    /\ verifier.state = "adding"
    /\ LET n == verifier.i + 1
           term == G1!MulScalar(verifier.vk.Ic[n + 1], proof.publicSignals[n])
       IN  verifier' = IF verifier.i < Len(proof.publicSignals)
                       THEN [verifier EXCEPT !.vkX = G1!Add(verifier.vkX, term), !.i = n]
                       ELSE [verifier EXCEPT !.state = "added"]
    /\ UNCHANGED <<pkeyVars, proof>>

GrothNext == BuildKey \/ Prove \/ Receive \/ AddInput

GrothSpec == GrothInit /\ [][GrothNext]_grothVars

-----------------------------------------------------------------------------
\* A point of a proof or a key in its JavaScript form, as a point.
point1(p)   == <<p[1], p[2], 1>>
pointOf2(p) == <<p[1], p[2], <<1, 0>>>>

\* Of every point only x and a bit of y travel; the verifier has exactly the
\* points of the prover and of the setup again.
PointsArrive ==
    verifier # none =>
        LET vk == verifyingKey(provingKey)
            points == proof.points
        IN  /\ verifier.state # "refused"
            /\ verifier.proof = [A |-> point1(points.pi_a), B |-> pointOf2(points.pi_b),
                                 C |-> point1(points.pi_c)]
            /\ verifier.vk = [AlphaG1 |-> point1(vk.vk_alfa_1),
                              BetaG2 |-> pointOf2(vk.vk_beta_2),
                              GammaG2 |-> pointOf2(vk.vk_gamma_2),
                              DeltaG2 |-> pointOf2(vk.vk_delta_2),
                              Ic |-> [k \in DOMAIN vk.IC |-> point1(vk.IC[k])]]

\* The group law by chords and tangents, infinity being <<0, 0>>.
sum(p, q) ==
    LET sameX  == p[1] = q[1]
        slope  == IF sameX THEN mul(3 * p[1] * p[1], inverse(add(p[2], p[2])))
                  ELSE mul(q[2] - p[2], inverse((q[1] - p[1]) % modulus))
        x      == (slope * slope - p[1] - q[1]) % modulus
    IN  IF p = <<0, 0>> THEN q
        ELSE IF q = <<0, 0>> THEN p
        ELSE IF sameX /\ add(p[2], q[2]) = 0 THEN <<0, 0>>
        ELSE <<x, (slope * (p[1] - x) - p[2]) % modulus>>

times(p, e) == FoldLeft(LAMBDA acc, k : sum(acc, p), <<0, 0>>, [k \in 1 .. e |-> k])

\* The verifier's sum over the inputs is the one of the group, also where two
\* terms are equal, opposite or nothing.
InputsAddUp ==
    verifier.state = "added" =>
        LET IC    == verifyingKey(provingKey).IC
            input == proof.publicSignals
            total == FoldLeft(LAMBDA acc, k : sum(acc, times(IC[k + 1], input[k])), IC[1],
                              [k \in DOMAIN input |-> k])
        IN  IF total = <<0, 0>> THEN G1!IsZero(verifier.vkX)
            ELSE G1!Affine(verifier.vkX) = point1(total)
=============================================================================
