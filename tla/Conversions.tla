----------------------------- MODULE Conversions ------------------------------
(***************************************************************************)
(* Numbers as bytes and bits: the loops of zcrypto/src/utils.js that every *)
(* message of the dApp goes through.  The bigints are unbounded; between   *)
(* them and the bytes stands a Number of 32 bits.                          *)
(***************************************************************************)
EXTENDS Int32, Sequences, SequencesExt, FiniteSetsExt

CONSTANT WordSize     \* bytes of a word of a message, 32

ASSUME WordAssumption == WordSize \in Nat \ {0}

-----------------------------------------------------------------------------
zeroLimb(x, t) == t = 0                 \* mutant: stops at a limb of zeros
nothingLeft(x, t) == x = 0 /\ t = 0

\* One round of the loop of bigint2buffLe: a new limb every four bytes.
writeByte(s) ==
    LET l == IF s.ti = 4 THEN [s EXCEPT !.t = s.x % Limb, !.ti = 0, !.x = s.x \div Limb] ELSE s
        t == shiftRight(l.t, 1)
    IN  [x |-> l.x, t |-> t, ti |-> l.ti + 1, b |-> Append(l.b, lowByte(l.t)),
         break |-> nothingLeft(l.x, t)]

\* The buffer has n bytes; those after a break stay zero.
bigint2buffLe(x, n) ==
    FoldLeft(LAMBDA s, i : IF s.break THEN [s EXCEPT !.b = Append(@, 0)] ELSE writeByte(s),
             [x |-> x, t |-> 0, ti |-> 4, b |-> <<>>, break |-> FALSE],
             [i \in 1 .. n |-> i]).b

bigint2buffBe(x, n) == Reverse(bigint2buffLe(x, n))

\* The bytes that are taken over together: one less than a Number holds.
groupFull(ti) == ti = 3

\* One round of the loop of buff2bigintBe: three bytes at a time.
readByte(s, byte) ==
    LET t == shiftLeft(s.t) + byte
    IN  IF groupFull(s.ti + 1) THEN [res |-> s.res * Power[s.ti + 1] + t, t |-> 0, ti |-> 0]
        ELSE [s EXCEPT !.t = t, !.ti = s.ti + 1]

buff2bigintBe(b) ==
    LET s == FoldLeft(readByte, [res |-> 0, t |-> 0, ti |-> 0], b)
    IN  s.res * Power[s.ti] + s.t

buff2bigintLe(b) == buff2bigintBe(Reverse(b))

chunks(buffer, chunkSize) ==
    [k \in 1 .. (Len(buffer) + chunkSize - 1) \div chunkSize |->
        SubSeq(buffer, (k - 1) * chunkSize + 1, Min({k * chunkSize, Len(buffer)}))]

serializeMessage(m)   == FlattenSeq([i \in DOMAIN m |-> bigint2buffBe(m[i], WordSize)])
deserializeMessage(b) == [k \in DOMAIN chunks(b, WordSize) |-> buff2bigintBe(chunks(b, WordSize)[k])]
=============================================================================
