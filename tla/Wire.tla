--------------------------------- MODULE Wire ---------------------------------
(***************************************************************************)
(* A call of the dApp as bytes, from the prover through the contract to    *)
(* the wallets: the public signals of a proof become the argument v, the   *)
(* contract cuts its fields out of v at fixed offsets and strings some of  *)
(* them together to a message, and syncData() cuts the message up again.   *)
(* Lengths and offsets are those of the code; only the values of a byte    *)
(* are fewer, so that a word of 32 of them fits an integer of TLC.         *)
(***************************************************************************)
EXTENDS Conversions

CONSTANTS
    Hashes,         \* utxo hashes and nullifiers
    Anonymity,      \* sequences of 8 input hashes
    Balances,       \* amounts
    Receivers,      \* addresses of 26 bytes, as numbers
    Encrypted       \* encrypted notes: sequences of 5 words

\* x < Power[n], without computing a power that is beyond the integers of TLC.
fits(x, n) == x \in Nat /\ x \div Power[n \div 2] < Power[n - n \div 2]

ASSUME WordsAssumption ==
    /\ WordSize = 32
    /\ Hashes \cup Balances \cup Receivers \subseteq Nat
    /\ Anonymity \cup Encrypted \subseteq Seq(Nat)
    /\ \A h \in Anonymity : Len(h) = 8
    /\ \A e \in Encrypted : Len(e) = 5 /\ \A k \in 1 .. 5 : fits(e[k], WordSize)
    /\ \A b \in Balances : b < Power[8]
    /\ \A r \in Receivers : r < Power[26]

VARIABLES
    call,       \* the invocation: function, public signals of its proof, arguments
    result,     \* what the contract does: the words it verifies, what it read, its message
    learnt      \* what a wallet makes of the message

wireVars == <<call, result, learnt>>

none == [function |-> "none"]

\* bigInt.beInt2Buff does what bigint2buffBe does.
serializeInputs(inputs) == FlattenSeq([k \in DOMAIN inputs |-> bigint2buffBe(inputs[k], 32)])

-----------------------------------------------------------------------------
WireInit == call = none /\ result = none /\ learnt = none

\* depositProof: the contract appends the balance itself.
depositSignals(signals) == SubSeq(signals, 1, Len(signals) - 1)

deposit ==
    /\ call = none
    /\ \E hash \in Hashes, balance \in Balances, em \in Encrypted :
          LET signals == <<hash, balance>>
          IN  call' = [function |-> "deposit", signals |-> signals,
                       v |-> serializeInputs(depositSignals(signals)),
                       m |-> <<serializeMessage(em)>>, payment |-> balance, em |-> <<em>>]
    /\ UNCHANGED <<result, learnt>>

withdrawal ==
    /\ call = none
    /\ \E in_hashes \in Anonymity, nullifier \in Hashes, receiver \in Receivers, balance \in Balances :
          LET signals == in_hashes \o <<nullifier, receiver, balance>>
          IN  call' = [function |-> "withdrawal", signals |-> signals,
                       v |-> serializeInputs(signals), m |-> <<>>, payment |-> 0, em |-> <<>>]
    /\ UNCHANGED <<result, learnt>>

transfer ==
    /\ call = none
    /\ \E in_hashes \in Anonymity, nullifier \in Hashes \X Hashes, out_hash \in Hashes \X Hashes,
          em \in Encrypted \X Encrypted :
          LET signals == in_hashes \o nullifier \o out_hash
          IN  call' = [function |-> "transfer", signals |-> signals,
                       v |-> serializeInputs(signals),
                       m |-> <<serializeMessage(em[1]), serializeMessage(em[2])>>,
                       payment |-> 0, em |-> em]
    /\ UNCHANGED <<result, learnt>>

-----------------------------------------------------------------------------
\* take and takeRight of a ByteVector.
takeLR(v, from, to) == SubSeq(v, from + 1, to)

oneShort(v) == [k \in 0 .. 7 |-> takeLR(v, 32 * k, 32 * k + 31)]    \* mutant: a byte is lost
uk(v) == [k \in 0 .. 7 |-> takeLR(v, 32 * k, 32 * k + 32)]

\* toInt and toBytes of 64 bits.
toInt(v, from) ==
    LET b == buff2bigintBe(takeLR(v, from, from + 8))
    IN  IF 2 * b < Power[8] THEN b ELSE b - Power[8]
toBytes(n) == bigint2buffBe(n, 8)

\* base58 of 24 zero bytes.
noZeros == <<>>                                     \* mutant: the balance is appended alone
leadingZeros == [k \in 1 .. 24 |-> 0]

\* The fields are what the contract looks up, flags and pays; "verified" is
\* what bn256Groth16Verify compares the proof with.
Execute ==
    /\ call # none /\ result = none
    /\ LET v == call.v
       IN  result' =
             CASE call.function = "deposit" ->
                    LET hash == takeLR(v, 0, 32)
                    IN  [function |-> "deposit",
                         verified |-> v \o leadingZeros \o toBytes(call.payment),
                         inputs |-> {}, nullifiers |-> <<>>, outputs |-> <<hash>>,
                         receiver |-> <<>>, balance |-> call.payment,
                         message |-> hash \o call.m[1]]
               [] call.function = "withdrawal" ->
                    LET rn == takeLR(v, 256, 288)
                    IN  [function |-> "withdrawal",
                         verified |-> v,
                         inputs |-> {uk(v)[k] : k \in 0 .. 7}, nullifiers |-> <<rn>>, outputs |-> <<>>,
                         receiver |-> takeLR(v, 294, 320), balance |-> toInt(v, 320 + 3 * 8),
                         message |-> rn]
               [] call.function = "transfer" ->
                    LET rn0 == takeLR(v, 256, 288)
                        rn1 == takeLR(v, 288, 320)
                        ou0 == takeLR(v, 320, 352)
                        ou1 == takeLR(v, 352, 384)
                    IN  [function |-> "transfer",
                         verified |-> v,
                         inputs |-> {uk(v)[k] : k \in 0 .. 7}, nullifiers |-> <<rn0, rn1>>,
                         outputs |-> <<ou0, ou1>>, receiver |-> <<>>, balance |-> 0,
                         message |-> rn0 \o rn1 \o ou0 \o ou1 \o call.m[1] \o call.m[2]]
    /\ UNCHANGED <<call, learnt>>

\* The kinds of messages have different numbers of words.
fourWords(data) == <<SubSeq(data, 5, 8), SubSeq(data, 9, 14)>>     \* mutant: slice(4, 8) and slice(8, 14)
encryptedOf(data) == <<SubSeq(data, 5, 9), SubSeq(data, 10, 14)>>

Learn ==
    /\ result # none /\ learnt = none
    /\ LET data == deserializeMessage(result.message)
           n    == Len(data)
       IN  learnt' =
             CASE n = 14 -> [function |-> "transfer", nullifiers |-> SubSeq(data, 1, 2),
                             utxos |-> SubSeq(data, 3, 4), em |-> encryptedOf(data)]
               [] n = 1  -> [function |-> "withdrawal", nullifiers |-> data, utxos |-> <<>>, em |-> <<>>]
               [] n = 6  -> [function |-> "deposit", nullifiers |-> <<>>,
                             utxos |-> <<data[1]>>, em |-> <<Tail(data)>>]
               [] OTHER  -> [function |-> "ignored"]
    /\ UNCHANGED <<call, result>>

WireNext == deposit \/ withdrawal \/ transfer \/ Execute \/ Learn

WireSpec == WireInit /\ [][WireNext]_wireVars

-----------------------------------------------------------------------------
\* The verifier compares a proof with exactly its own public signals, also
\* for a deposit, whose balance comes from the payment.
ProofMatches ==
    result # none => result.verified = serializeInputs(call.signals)

\* The fields that the contract acts on are the signals that the proof is
\* about, in their roles: input hashes, nullifiers, outputs, receiver, amount.
FieldsAreSignals ==
    result # none =>
        LET word(k) == bigint2buffBe(call.signals[k], 32)
        IN  CASE result.function = "deposit" ->
                   result.outputs = <<word(1)>> /\ result.balance = call.signals[2]
              [] result.function = "withdrawal" ->
                   /\ result.inputs = {word(k) : k \in 1 .. 8}
                   /\ result.nullifiers = <<word(9)>>
                   /\ buff2bigintBe(result.receiver) = call.signals[10]
                   /\ (2 * call.signals[11] < Power[8] => result.balance = call.signals[11])
              [] result.function = "transfer" ->
                   /\ result.inputs = {word(k) : k \in 1 .. 8}
                   /\ result.nullifiers = <<word(9), word(10)>>
                   /\ result.outputs = <<word(11), word(12)>>

\* A wallet learns from the message which call it was, what it spent and
\* created, and the encrypted notes the sender put into it.
WalletLearns ==
    learnt # none =>
        /\ learnt.function = call.function
        /\ learnt.em = call.em
        /\ learnt.nullifiers = [k \in DOMAIN result.nullifiers |-> buff2bigintBe(result.nullifiers[k])]
        /\ learnt.utxos = [k \in DOMAIN result.outputs |-> buff2bigintBe(result.outputs[k])]
=============================================================================
