------------------------------ MODULE Circuits ------------------------------
(***************************************************************************)
(* The three statements of zksnark/circuits (Deposit, Withdrawal,          *)
(* Transfer) as predicates over their signals, with the hash functions as  *)
(* uninterpreted operators.  Nothing is known of them but that nobody      *)
(* finds a collision: every value that takes part was computed by running  *)
(* them forward, so on those values they are injective.                    *)
(***************************************************************************)
EXTENDS Integers

CONSTANTS
    PrivKeys,           \* private keys (babyJubJub.privkey of some seed)
    Entropies,          \* values of rand256() % 2^253 that are ever drawn
    BalanceLimit,       \* 2^64, the range of Num2Bits(64)
    FieldPrime,         \* order of the scalar field the circuits compute in
    Fee,                \* 900000 in zwaves.ride, cli.js and Transfer.circom
    NoAccount,          \* the receiver 0
    ANONYMITY_SET,      \* input hashes per statement, 8 in the source
    PubKey(_),          \* privkey -> x of privkey * Base8
    Hash253(_),         \* entropy -> secret
    UTXOHash(_, _, _),  \* balance, pubkey, secret -> utxo hash
    Compress(_, _)      \* privkey, secret -> nullifier

ASSUME NumbersAssumption ==
    /\ BalanceLimit \in Nat
    /\ Fee \in Nat \ {0}
    /\ FieldPrime \in Nat
    /\ ANONYMITY_SET \in Nat \ {0}
    /\ 2 * BalanceLimit + Fee < FieldPrime

PubKeys == {PubKey(k) : k \in PrivKeys}
Secrets == {Hash253(e) : e \in Entropies}
Field   == 0 .. FieldPrime - 1
Slots   == 0 .. ANONYMITY_SET - 1

\* Collision resistance of the four hash functions.
ASSUME PubKeyInjective ==
    \A k, l \in PrivKeys : PubKey(k) = PubKey(l) => k = l
ASSUME Hash253Injective ==
    \A d, e \in Entropies : Hash253(d) = Hash253(e) => d = e
ASSUME UTXOHashInjective ==
    \A b, c \in Field, p, q \in PubKeys, s, t \in Secrets :
        UTXOHash(b, p, s) = UTXOHash(c, q, t) => b = c /\ p = q /\ s = t
ASSUME CompressInjective ==
    \A k, l \in PrivKeys, s, t \in Secrets \cup Entropies :
        Compress(k, s) = Compress(l, t) => k = l /\ s = t
\* A 253-bit random number is never the hash of another one.
ASSUME EntropiesAreNotSecrets == Entropies \cap Secrets = {}

-----------------------------------------------------------------------------
\* Num2Bits(64) of UTXOHasher: the balance has at most 64 bits.
AnyBits(b) == TRUE              \* mutant: the balance is not decomposed
Num2Bits64(b) == b < BalanceLimit

\* What the inputs of UTXOHasher may be: the notes of the pool.
Candidates == [balance : Field, pubkey : PubKeys, secret : Secrets]
Notes      == {n \in Candidates : Num2Bits64(n.balance)}

UTXOHasher(n) == UTXOHash(n.balance, n.pubkey, n.secret)
Hashes        == {UTXOHasher(n) : n \in Notes}

\* cnullifier of Withdrawal and Transfer.
HashAsNullifier(privkey, n) == UTXOHasher(n)    \* mutant: the note is revealed
Compressor(privkey, n) == Compress(privkey, n.secret)

Nullifiers == {Compress(k, s) : k \in PrivKeys, s \in Secrets \cup Entropies}

\* Selector and "utxohash.out === in_hash.out": the note a statement spends is
\* the one behind the selected hash.  By collision resistance there is only
\* one, so an array of input hashes is given by the notes behind them.
Rings(notes) == [Slots -> notes]
AllButFirst(ring) == {UTXOHasher(ring[i]) : i \in Slots \ {0}}  \* mutant: uk0 is not looked up
InHashes(ring) == {UTXOHasher(ring[i]) : i \in Slots}
Selector(ring, index) == ring[index]

\* Deposit(): the public hash commits to the public balance.
DepositCircuit(hash, balance, pubkey, entropy) ==
    /\ Num2Bits64(balance)
    /\ hash = UTXOHash(balance, pubkey, Hash253(entropy))

\* Withdrawal(N) on the note "in" behind the selected hash.
WithdrawalCircuit(in, privkey, receiver) ==
    /\ receiver # NoAccount
    /\ in.pubkey = PubKey(privkey)

\* Transfer(N, C): its constant C, and the two nullifiers it forces.  A
\* statement that spends one note twice replaces the second by a dummy.
C == Fee

SameInputs(in0, in1) == UTXOHasher(in0) = UTXOHasher(in1)

\* mutant: the dummy replaces the second nullifier of two different inputs
SwappedNullifiers(privkey, entropy, in0, in1) ==
    << Compressor(privkey, in0),
       IF SameInputs(in0, in1) THEN Compressor(privkey, in1)
                               ELSE Compress(privkey, entropy) >>
TransferNullifiers(privkey, entropy, in0, in1) ==
    << Compressor(privkey, in0),
       IF SameInputs(in0, in1) THEN Compress(privkey, entropy)
                               ELSE Compressor(privkey, in1) >>

BothBalances(in0, in1) == in0.balance + in1.balance     \* mutant: counts one note twice
InBalance(in0, in1) ==
    in0.balance + (IF SameInputs(in0, in1) THEN 0 ELSE in1.balance)

\* The balance equation of Transfer is an equation of the field.
Balanced(total, out) ==
    total % FieldPrime = (out[1].balance + out[2].balance + C) % FieldPrime

TransferOutputs(in0, in1, out) ==
    /\ out \in Notes \X Notes
    /\ Balanced(InBalance(in0, in1), out)

\* The outputs a prover can choose from, by the balance of the inputs.
Outputs ==
    [total \in 0 .. 2 * FieldPrime |-> {out \in Notes \X Notes : Balanced(total, out)}]

\* Both inputs of Transfer belong to the one private key.
TransferInputs(privkey, in0, in1) ==
    /\ in0.pubkey = PubKey(privkey)
    /\ in1.pubkey = PubKey(privkey)
=============================================================================
