------------------------------ MODULE ProvingKey ------------------------------
(***************************************************************************)
(* buildpkey.js: the binary form of a proving key for the prover in wasm,  *)
(* which finds its way by pointers.  The size of the buffer is computed in *)
(* advance from the counts of the key, the pointers are reserved, and then *)
(* loop after loop appends its numbers.                                    *)
(***************************************************************************)
EXTENDS Integers, FiniteSets, FiniteSetsExt

CONSTANT
    ProvingKeys         \* counts of a circuit, and the keys of its polynomials

ASSUME KeysAssumption ==
    \A k \in ProvingKeys :
        /\ k.nVars \in Nat /\ k.nPublic \in Nat /\ k.domainSize \in Nat
        /\ k.nPublic < k.nVars
        /\ k.polsA \in [0 .. k.nVars - 1 -> SUBSET Nat]
        /\ k.polsB \in [0 .. k.nVars - 1 -> SUBSET Nat]
        /\ \A n \in 0 .. k.nVars - 1 : IsFiniteSet(k.polsA[n]) /\ IsFiniteSet(k.polsB[n])

VARIABLES
    provingKey,
    section,        \* the part of the buffer that is being written
    i,              \* the loop variable there
    offset,         \* h.offset
    pointers,       \* what was written into the seven allocated words
    written         \* offset -> what was written there

pkeyVars == <<provingKey, section, i, offset, pointers, written>>

uint32 == 4
bigInt == 8 * uint32
point  == 2 * bigInt
point2 == 4 * bigInt

polynomial(p) == uint32 + Cardinality(p) * (uint32 + bigInt)

Sections == {"polsA", "polsB", "A", "B1", "B2", "C", "hExps"}

\* The order of the loops.
after == [header |-> "polsA", polsA |-> "polsB", polsB |-> "A", A |-> "B1", B1 |-> "B2",
          B2 |-> "C", C |-> "hExps", hExps |-> "end"]

firstPublic(k, s) == IF s = "C" THEN k.nPublic ELSE 0   \* mutant: counts from the last public one
first(k, s) == IF s = "C" THEN k.nPublic + 1 ELSE 0
bound(k, s) == IF s = "hExps" THEN k.domainSize ELSE k.nVars

itemSize(k, s, n) ==
    CASE s = "polsA" -> polynomial(k.polsA[n])
      [] s = "polsB" -> polynomial(k.polsB[n])
      [] s = "B2"    -> point2
      [] OTHER       -> point

\* Three counts and seven pointers; alfa1, beta1, delta1; beta2, delta2.
headerSize == 10 * uint32 + 3 * point + 2 * point2

calculateBuffLen(k) ==
    LET polSize(pol) == 36 * Cardinality(pol) + 4
    IN  40 + 3 * (32 * 2) + 2 * (32 * 4)
          + MapThenSumSet(LAMBDA n : polSize(k.polsA[n]) + polSize(k.polsB[n]), 0 .. k.nVars - 1)
          + k.nVars * (32 * 2) + k.nVars * (32 * 2) + k.nVars * (32 * 4)
          + (k.nVars - k.nPublic - 1) * (32 * 2)
          + k.domainSize * (32 * 2)

-----------------------------------------------------------------------------
PkeyInit ==
    /\ provingKey \in ProvingKeys
    /\ section = "header"
    /\ i = 0
    /\ offset = 0
    /\ pointers = [s \in {} |-> 0]
    /\ written = [o \in {} |-> <<>>]

\* Where the pointer to a section that starts at offset o leads.
pastFirst(s, o) == o + itemSize(provingKey, s, first(provingKey, s))    \* mutant: written in the loop
pointerTo(s, o) == o

\* The end of a loop: the pointer of the next one is written before it starts.
Enter(s, o) ==
    /\ section' = s
    /\ i' = IF s = "end" THEN 0 ELSE first(provingKey, s)
    /\ pointers' = [t \in DOMAIN pointers \cup ({s} \cap Sections) |->
                       IF t = s THEN pointerTo(s, o) ELSE pointers[t]]

Header ==
    /\ section = "header"
    /\ offset' = headerSize
    /\ Enter(after[section], headerSize)
    /\ UNCHANGED <<provingKey, written>>

\* One round of a loop.
WriteItem ==
    /\ section \in Sections
    /\ i < bound(provingKey, section)
    /\ written' = [o \in DOMAIN written \cup {offset} |->
                      IF o = offset THEN <<section, i>> ELSE written[o]]
    /\ offset' = offset + itemSize(provingKey, section, i)
    /\ i' = i + 1
    /\ UNCHANGED <<provingKey, section, pointers>>

NextSection ==
    /\ section \in Sections
    /\ i >= bound(provingKey, section)
    /\ Enter(after[section], offset)
    /\ UNCHANGED <<provingKey, offset, written>>

PkeyNext == Header \/ WriteItem \/ NextSection

PkeySpec == PkeyInit /\ [][PkeyNext]_pkeyVars

-----------------------------------------------------------------------------
\* No write is outside of the buffer, where setUint32 throws, and in the end
\* assert.equal(h.offset, buffLen) holds: the sizes computed in advance are
\* those of what is written.
BufferFits ==
    /\ offset <= calculateBuffLen(provingKey)
    /\ section = "end" => offset = calculateBuffLen(provingKey)

\* Whoever follows a pointer finds the points of that section in a row, and a
\* point C for every variable that is not public.
PointersLead ==
    section = "end" =>
        \A s \in {"A", "B1", "B2", "C", "hExps"} :
            \A n \in 0 .. bound(provingKey, s) - 1 - first(provingKey, s) :
                LET o == pointers[s] + n * itemSize(provingKey, s, n)
                IN  o \in DOMAIN written /\ written[o] = <<s, first(provingKey, s) + n>>
=============================================================================
