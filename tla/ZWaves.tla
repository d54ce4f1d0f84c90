------------------------------- MODULE ZWaves -------------------------------
(***************************************************************************)
(* The dApp contract ride/zwaves.ride on the account "this": its account   *)
(* data, its three callables and the WAVES they move.  A call whose script *)
(* throws leaves no trace in this state, so a throw is a disabled action.  *)
(* The argument "proof" stands for the private signals it proves knowledge *)
(* of, and bn256Groth16Verify for the circuit's statement about them.      *)
(***************************************************************************)
EXTENDS Circuits, Sequences, FiniteSetsExt

CONSTANTS
    Accounts,       \* Waves accounts
    this,           \* the account of the dApp
    WAVES,          \* the asset of a payment without assetId
    Tokens,         \* other assets
    InitFunds,      \* WAVES of every account when the script is set
    Amounts,        \* amounts of a payment
    TxFees,         \* fees a transaction can have
    Drafts          \* notes computed off-chain whose transaction is not mined

ASSUME AccountsAssumption ==
    /\ this \in Accounts
    /\ InitFunds \in [Accounts -> Nat]
    /\ NoAccount \notin Accounts
    /\ WAVES \notin Tokens
    /\ Amounts \subseteq Nat \ {0}
    /\ \A a \in Amounts : a < BalanceLimit
    /\ TxFees \subseteq Nat \ {0}       \* the node has a minimum
    /\ Fee \in TxFees
    /\ Drafts \subseteq Notes

\* The node counts all the WAVES there are in one signed 64-bit number.
Supply(balances) == MapThenSumSet(LAMBDA a : balances[a], Accounts)

ASSUME SupplyAssumption ==
    /\ IsFiniteSet(Accounts)
    /\ 2 * Supply(InitFunds) <= BalanceLimit

VARIABLES
    U,              \* hashes h with data entry "U:h" = true
    N,              \* nullifiers n with data entry "N:n" = true
    MESSAGE_NUM,    \* data entry "MESSAGE_NUM"
    M,              \* data entries "M:i"
    funds           \* WAVES balance of every account

vars == <<U, N, MESSAGE_NUM, M, funds>>

\* The contract's fee.  Nothing in the contract reads the fee of a transaction.
fee == Fee

\* toInt reads 64 bits as a signed number.
toInt(b) == IF 2 * b < BalanceLimit THEN b ELSE b - BalanceLimit

\* Data entry "M:mn" of a message: what the contract concatenates.  "notes"
\* is the content of the encrypted part, which clients fill with the notes
\* behind the utxo hashes.
HashesOf(notes) == [i \in DOMAIN notes |-> UTXOHasher(notes[i])]

Message(nullifiers, notes) ==
    [nullifiers |-> nullifiers,
     utxos      |-> HashesOf(notes),
     notes      |-> notes]

\* IntegerEntry("MESSAGE_NUM", mn + 1), BinaryEntry("M:mn", message).
Put(message) ==
    M' = [i \in DOMAIN M \cup {MESSAGE_NUM} |->
             IF i = MESSAGE_NUM THEN message ELSE M[i]]

Overwrite(message) ==           \* mutant: MESSAGE_NUM is not counted on
    Put(message) /\ UNCHANGED MESSAGE_NUM
Announce(message) ==
    Put(message) /\ MESSAGE_NUM' = MESSAGE_NUM + 1

\* The conditions of the callables, in the order they are tested.
AnyCaller(caller) == FALSE      \* mutant: whoever signs the transaction pays its fee
wrongCaller(caller) == caller # this

Unchecked(nullifiers) == FALSE  \* mutant: the "N:" flags are not read
doublespend(nullifiers) == nullifiers \cap N # {}

inputsExist(hashes) == hashes \subseteq U
outputExists(hashes) == hashes \cap U # {}

\* The node takes the transaction fee from "payer", applies the movements of
\* the call and refuses a transaction after which a balance is negative.
Nothing == [a \in Accounts |-> 0]

Moved(from, to, amount) ==
    [a \in Accounts |-> IF a = to THEN amount ELSE IF a = from THEN -amount ELSE 0]

Settle(payer, movement, txFee) ==
    LET balance(a) == funds[a] + movement[a] - (IF a = payer THEN txFee ELSE 0)
    IN  /\ \A a \in Accounts : balance(a) >= 0
        /\ funds' = [a \in Accounts |-> balance(a)]

-----------------------------------------------------------------------------
Init ==
    /\ U = {}
    /\ N = {}
    /\ MESSAGE_NUM = 0
    /\ M = [i \in {} |-> <<>>]
    /\ funds = InitFunds

\* deposit(proof, v, m): one payment in WAVES becomes a note of its amount.
deposit(caller, payments, pubkey, entropy, txFee) ==
    /\ Len(payments) = 1
    /\ payments[1].assetId = WAVES
    /\ LET balance == payments[1].amount
           note    == [balance |-> balance, pubkey |-> pubkey, secret |-> Hash253(entropy)]
           hash    == UTXOHasher(note)
       IN  /\ ~outputExists({hash})
           /\ DepositCircuit(hash, balance, pubkey, entropy)
           /\ U' = U \cup {hash}
           /\ Announce(Message(<<>>, <<note>>))
           /\ caller # this                \* the node forbids a self-payment
           /\ Settle(caller, Moved(caller, this, balance), txFee)
           /\ UNCHANGED N

\* withdrawal(proof, v): the note "in", one of the ring, is paid out.
withdrawal(caller, ring, in, privkey, receiver, txFee) ==
    LET nullifier == Compressor(privkey, in)
        balance   == toInt(in.balance)
    IN  /\ ~wrongCaller(caller)
        /\ balance >= fee
        /\ ~doublespend({nullifier})
        /\ inputsExist(InHashes(ring))
        /\ WithdrawalCircuit(in, privkey, receiver)
        /\ N' = N \cup {nullifier}
        /\ Announce(Message(<<nullifier>>, <<>>))
        /\ receiver # this                 \* the node forbids a self-payment
        /\ Settle(caller, Moved(this, receiver, balance - fee), txFee)
        /\ UNCHANGED U

\* transfer(proof, v, m0, m1): the notes in0 and in1, both of the ring, become
\* two notes, one pair of "choice".
transfer(caller, ring, in0, in1, privkey, entropy, choice, txFee) ==
    LET nullifiers == TransferNullifiers(privkey, entropy, in0, in1)
    IN  /\ ~wrongCaller(caller)
        /\ ~doublespend({nullifiers[1], nullifiers[2]})
        /\ inputsExist(InHashes(ring))
        /\ TransferInputs(privkey, in0, in1)
        /\ \E out \in choice :
              /\ ~outputExists({UTXOHasher(out[1]), UTXOHasher(out[2])})
              /\ TransferOutputs(in0, in1, out)
              /\ U' = U \cup {UTXOHasher(out[1]), UTXOHasher(out[2])}
              /\ Announce(Message(nullifiers, out))
        /\ N' = N \cup {nullifiers[1], nullifiers[2]}
        /\ Settle(caller, Nothing, txFee)

\* The verifier, asked for every transaction of the account "this": it looks at
\* no fee, no target and no payment.  (A payment with a call of this contract
\* would be one to itself.)  Data and script transactions, which the branch
\* "case _ => true" lets pass as well, are left out.
verify(tx) ==
    \/ tx.type # "invokeScript"
    \/ tx.function \in {"withdrawal", "transfer"}
    \/ tx.signed

\* A transaction that moves WAVES and is no call of this contract: a transfer,
\* or the invocation of another contract with a payment.
OtherTransactions ==
    [type : {"invokeScript", "transfer"}, function : {"deposit", "withdrawal", "transfer"},
     signed : BOOLEAN, amount : {0} \cup Amounts]

pay(tx, sender, receiver, txFee) ==
    /\ sender = this => verify(tx)
    /\ receiver # sender
    /\ Settle(sender, Moved(sender, receiver, tx.amount), txFee)
    /\ UNCHANGED <<U, N, MESSAGE_NUM, M>>

\* Everyone calls with everything a prover can fill in: any anonymity set of
\* hashes that exist or are about to, any note behind a selected hash.
Payments == UNION {[1 .. n -> [amount : Amounts, assetId : Tokens \cup {WAVES}]] : n \in 0 .. 2}

Known == {n \in Notes : UTXOHasher(n) \in U \/ n \in Drafts}

Deposit(txFee) ==
    \E caller \in Accounts, payments \in Payments, pubkey \in PubKeys, entropy \in Entropies :
        deposit(caller, payments, pubkey, entropy, txFee)

Withdrawal(txFee) ==
    \E caller \in Accounts, ring \in Rings(Known), index \in Slots, privkey \in PrivKeys,
       receiver \in Accounts \cup {NoAccount} :
        withdrawal(caller, ring, Selector(ring, index), privkey, receiver, txFee)

Transfer(txFee) ==
    \E caller \in Accounts, ring \in Rings(Known), index \in Slots \X Slots,
       privkey \in PrivKeys, entropy \in Entropies :
        LET in0 == Selector(ring, index[1])
            in1 == Selector(ring, index[2])
        IN  transfer(caller, ring, in0, in1, privkey, entropy, Outputs[InBalance(in0, in1)], txFee)

Pay(txFee) ==
    \E tx \in OtherTransactions, sender, receiver \in Accounts : pay(tx, sender, receiver, txFee)

Next == \E txFee \in TxFees : Deposit(txFee) \/ Withdrawal(txFee) \/ Transfer(txFee) \/ Pay(txFee)

Spec == Init /\ [][Next]_vars
-----------------------------------------------------------------------------
Values(seq) == {seq[i] : i \in DOMAIN seq}

\* The notes with an announced hash that nobody has nullified: what the pool
\* owes.  "NullifierOf" is the nullifier only the owner can compute.
NullifierOf(note) == {Compress(k, note.secret) : k \in {k \in PrivKeys : PubKey(k) = note.pubkey}}
Unspent == {n \in Notes : UTXOHasher(n) \in U /\ NullifierOf(n) \cap N = {}}

Messages ==
    [nullifiers : UNION {[1 .. n -> Nullifiers] : n \in 0 .. 2},
     utxos      : UNION {[1 .. n -> Hashes] : n \in 0 .. 2},
     notes      : UNION {[1 .. n -> Notes] : n \in 0 .. 2}]

\* The data entries of the dApp and the balances hold what their types say.
TypeOK ==
    /\ U \subseteq Hashes
    /\ N \subseteq Nullifiers
    /\ MESSAGE_NUM \in Nat
    /\ DOMAIN M \subseteq Nat
    /\ \A i \in DOMAIN M : M[i] \in Messages
    /\ funds \in [Accounts -> Nat]

\* The message log is complete: it is numbered without a gap below MESSAGE_NUM
\* and replaying it gives exactly the flags of the contract.  Wallets see
\* nothing of the pool but this log.
LogIsLedger ==
    /\ DOMAIN M = 0 .. MESSAGE_NUM - 1
    /\ U = UNION {Values(M[i].utxos) : i \in DOMAIN M}
    /\ N = UNION {Values(M[i].nullifiers) : i \in DOMAIN M}

\* No nullifier and no utxo hash is announced by two messages ("doublespend
\* detected", "output utxo alreadyexists", "utxo already exists").
NoDoubleSpend ==
    \A i, j \in DOMAIN M : i # j =>
        /\ Values(M[i].nullifiers) \cap Values(M[j].nullifiers) = {}
        /\ Values(M[i].utxos) \cap Values(M[j].utxos) = {}

\* A message that spends comes after the message that created what it spends:
\* its first nullifier is that of an earlier note, its second one too unless
\* it is the dummy of a transfer with one input.
SpentWasCreated ==
    \A i \in DOMAIN M : \A p \in DOMAIN M[i].nullifiers :
        \/ \E j \in DOMAIN M : /\ j < i
                             /\ \E q \in DOMAIN M[j].notes :
                                  M[i].nullifiers[p] \in NullifierOf(M[j].notes[q])
        \/ /\ p = 2
           /\ \E k \in PrivKeys, e \in Entropies : M[i].nullifiers[p] = Compress(k, e)

\* What the unspent notes are worth.
ValueOf(notes) == MapThenSumSet(LAMBDA n : n.balance, notes)
OutstandingValue == ValueOf(Unspent)

\* A step never clears a flag, never renumbers, drops or rewrites a message.
AppendOnly ==
    [][/\ U \subseteq U' /\ N \subseteq N'
       /\ \A i \in DOMAIN M : i \in DOMAIN M' /\ M'[i] = M[i]]_vars
=============================================================================
