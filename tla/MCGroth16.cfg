SPECIFICATION GrothSpec
CONSTANTS
    ProvingKeys <- MCProvingKeys
    modulus = 7
    b = 3
    b2 <- MCb2
    FlagBit = 8
    error = error
    proofs <- MCproofs
    verifyingKey <- MCverifyingKey
    Inputs = {0, 1, 6, 7, 11, 12}
INVARIANTS
    BufferFits
    PointersLead
    PointsArrive
    InputsAddUp
CHECK_DEADLOCK FALSE
