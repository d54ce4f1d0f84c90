--------------------------- MODULE ZWaves_proofs ----------------------------
(***************************************************************************)
(* Theorems about ZWaves and Pot.  Every call of the contract is first     *)
(* reduced to what it does to the message log and the flags (LedgerStep);  *)
(* the invariants are then proved about that one shape of step, and about  *)
(* a payment, which touches neither (MoneyStep).                           *)
(***************************************************************************)
EXTENDS Pot, BasicTheorems

\* A nullifier that a call may announce: of a note with a flag, or a dummy in
\* the second place.
SpendsExisting(nullifier, p) ==
    \/ \E n \in Notes : UTXOHasher(n) \in U /\ nullifier \in NullifierOf(n)
    \/ p = 2 /\ \E k \in PrivKeys, e \in Entropies : nullifier = Compress(k, e)

\* What every call does to the account data of the dApp.
LedgerStep(message) ==
    /\ message \in Messages
    /\ Announce(message)
    /\ U' = U \cup Values(message.utxos)
    /\ N' = N \cup Values(message.nullifiers)
    /\ U \cap Values(message.utxos) = {}
    /\ N \cap Values(message.nullifiers) = {}
    /\ message.utxos = HashesOf(message.notes)
    /\ \A p \in DOMAIN message.nullifiers : SpendsExisting(message.nullifiers[p], p)
    /\ funds' \in [Accounts -> Nat]

\* What every other transaction does to it.
MoneyStep ==
    /\ UNCHANGED <<U, N, MESSAGE_NUM, M>>
    /\ funds' \in [Accounts -> Nat]

-----------------------------------------------------------------------------
\* The amount of the one payment of a deposit.
LEMMA PaidAmount ==
    ASSUME NEW payments \in Payments, Len(payments) = 1
    PROVE  payments[1].amount \in Amounts
<1>1. PICK n \in 0 .. 2 :
         payments \in [1 .. n -> [amount : Amounts, assetId : Tokens \cup {WAVES}]]
  BY DEF Payments
<1>2. n = 1
  BY <1>1
<1>. QED BY <1>1, <1>2

\* A message made of nullifiers and notes is one.
LEMMA MessageType ==
    ASSUME NEW nullifiers, NEW notes,
           \E m \in 0 .. 2 : nullifiers \in [1 .. m -> Nullifiers],
           \E n \in 0 .. 2 : notes \in [1 .. n -> Notes]
    PROVE  /\ Message(nullifiers, notes) \in Messages
           /\ Message(nullifiers, notes).nullifiers = nullifiers
           /\ Message(nullifiers, notes).notes = notes
           /\ Message(nullifiers, notes).utxos = HashesOf(notes)
<1>1. PICK n \in 0 .. 2 : notes \in [1 .. n -> Notes]
  OBVIOUS
<1>2. HashesOf(notes) \in [1 .. n -> Hashes]
  BY <1>1 DEF HashesOf, Hashes
<1>. QED BY <1>1, <1>2 DEF Message, Messages

\* The node never lets a balance become negative.
LEMMA SettleType ==
    ASSUME funds \in [Accounts -> Nat], NEW payer \in Accounts,
           NEW movement \in [Accounts -> Int], NEW txFee \in TxFees, Settle(payer, movement, txFee)
    PROVE  funds' \in [Accounts -> Nat]
<1>1. txFee \in Int
  BY AccountsAssumption
<1>. QED BY <1>1 DEF Settle

LEMMA MovedType ==
    ASSUME NEW from, NEW to, NEW amount \in Int
    PROVE  Moved(from, to, amount) \in [Accounts -> Int]
BY DEF Moved

LEMMA NothingType == Nothing \in [Accounts -> Int]
BY DEF Nothing

\* An amount that can be paid fits into a balance.
LEMMA AmountType ==
    ASSUME NEW a \in Amounts
    PROVE  a \in Int /\ a \in Field /\ Num2Bits64(a)
<1>1. a \in Nat /\ a < BalanceLimit
  BY AccountsAssumption
<1>. QED BY <1>1, NumbersAssumption DEF Field, Num2Bits64

\* The values of the sequences a message is made of.
LEMMA ShortValues ==
    ASSUME NEW S
    PROVE  /\ \A f \in [1 .. 0 -> S] : DOMAIN f = {} /\ Values(f) = {}
           /\ \A f \in [1 .. 1 -> S] : DOMAIN f = {1} /\ Values(f) = {f[1]}
           /\ \A f \in [1 .. 2 -> S] : DOMAIN f = {1, 2} /\ Values(f) = {f[1], f[2]}
<1>1. 1 .. 0 = {} /\ 1 .. 1 = {1} /\ 1 .. 2 = {1, 2}
  OBVIOUS
<1>. QED BY <1>1 DEF Values

\* A note has an integer balance, a pubkey and a secret.
LEMMA NoteType ==
    ASSUME NEW n \in Notes
    PROVE  /\ n.balance \in Field /\ n.balance \in Int
           /\ n.pubkey \in PubKeys /\ n.secret \in Secrets
           /\ UTXOHasher(n) \in Hashes
BY NumbersAssumption DEF Notes, Candidates, Hashes, Field

\* Two notes with one hash are one note.
LEMMA HasherInjective ==
    ASSUME NEW m \in Notes, NEW n \in Notes, UTXOHasher(m) = UTXOHasher(n)
    PROVE  m = n
<1>1. /\ m \in [balance : Field, pubkey : PubKeys, secret : Secrets]
      /\ n \in [balance : Field, pubkey : PubKeys, secret : Secrets]
  BY DEF Notes, Candidates
<1>2. m.balance = n.balance /\ m.pubkey = n.pubkey /\ m.secret = n.secret
  BY <1>1, UTXOHashInjective DEF UTXOHasher
<1>. QED BY <1>1, <1>2

\* The nullifier the circuits force for a note is the one of its owner.
LEMMA NullifierType ==
    ASSUME NEW n \in Notes, NEW k \in PrivKeys, n.pubkey = PubKey(k)
    PROVE  /\ Compressor(k, n) \in Nullifiers
           /\ Compressor(k, n) \in NullifierOf(n)
BY NoteType DEF Compressor, Nullifiers, NullifierOf

-----------------------------------------------------------------------------
\* A deposit announces one new note and spends nothing.
LEMMA DepositCall ==
    ASSUME TypeOK, NEW caller \in Accounts, NEW payments, payments[1].amount \in Nat,
           NEW pubkey \in PubKeys, NEW entropy \in Entropies, NEW txFee \in TxFees,
           deposit(caller, payments, pubkey, entropy, txFee)
    PROVE  LET note == [balance |-> payments[1].amount, pubkey |-> pubkey, secret |-> Hash253(entropy)]
           IN  note \in Notes /\ LedgerStep(Message(<< >>, <<note>>))
<1>. DEFINE balance == payments[1].amount
            note == [balance |-> balance, pubkey |-> pubkey, secret |-> Hash253(entropy)]
            notes == <<note>>
            nullifiers == << >>
            message == Message(nullifiers, notes)
<1>3. note \in Notes
  <2>1. balance \in Field /\ Num2Bits64(balance)
    BY NumbersAssumption DEF deposit, DepositCircuit, Num2Bits64, Field
  <2>2. Hash253(entropy) \in Secrets
    BY DEF Secrets
  <2>. QED BY <2>1, <2>2 DEF Notes, Candidates
<1>4. notes \in [1 .. 1 -> Notes] /\ nullifiers \in [1 .. 0 -> Nullifiers]
  BY <1>3
<1>5. /\ message \in Messages
      /\ message.nullifiers = nullifiers
      /\ message.notes = notes
      /\ message.utxos = HashesOf(notes)
  <2>1. /\ \E m \in 0 .. 2 : nullifiers \in [1 .. m -> Nullifiers]
        /\ \E n \in 0 .. 2 : notes \in [1 .. n -> Notes]
    BY <1>4
  <2>. QED BY <2>1, MessageType
<1>6. /\ DOMAIN message.nullifiers = {}
      /\ Values(message.utxos) = {UTXOHasher(note)} /\ Values(message.nullifiers) = {}
  <2>1. DOMAIN message.nullifiers = {} /\ Values(message.nullifiers) = {}
    BY <1>4, <1>5, ShortValues
  <2>2. message.utxos \in [1 .. 1 -> Hashes] /\ message.utxos[1] = UTXOHasher(note)
    BY <1>3, <1>4, <1>5, NoteType DEF HashesOf
  <2>3. Values(message.utxos) = {UTXOHasher(note)}
    BY <2>2, ShortValues
  <2>. QED BY <2>1, <2>3
<1>7. /\ U' = U \cup {UTXOHasher(note)} /\ N' = N
      /\ U \cap {UTXOHasher(note)} = {}
      /\ Announce(message)
      /\ Settle(caller, Moved(caller, this, balance), txFee)
  BY DEF deposit, outputExists
<1>8. funds' \in [Accounts -> Nat]
  <2>1. balance \in Int
    OBVIOUS
  <2>2. Moved(caller, this, balance) \in [Accounts -> Int]
    BY <2>1, MovedType
  <2>. QED BY <1>7, <2>2, SettleType DEF TypeOK
<1>9. LedgerStep(message)
  BY <1>5, <1>6, <1>7, <1>8 DEF LedgerStep
<1>. QED BY <1>3, <1>9

LEMMA DepositStep ==
    ASSUME TypeOK, NEW txFee \in TxFees, Deposit(txFee)
    PROVE  \E message \in Messages : LedgerStep(message)
<1>1. PICK caller \in Accounts, payments \in Payments, pubkey \in PubKeys, entropy \in Entropies :
         deposit(caller, payments, pubkey, entropy, txFee)
  BY DEF Deposit
<1>2. payments[1].amount \in Amounts /\ Amounts \subseteq Nat
  BY <1>1, PaidAmount, AccountsAssumption DEF deposit
<1>. QED BY <1>1, <1>2, DepositCall DEF LedgerStep

\* A withdrawal announces the nullifier of one existing note.
LEMMA WithdrawalCall ==
    ASSUME TypeOK, NEW caller \in Accounts, NEW ring, NEW in \in Notes, UTXOHasher(in) \in InHashes(ring),
           NEW privkey \in PrivKeys, NEW receiver, NEW txFee \in TxFees,
           withdrawal(caller, ring, in, privkey, receiver, txFee)
    PROVE  LedgerStep(Message(<<Compressor(privkey, in)>>, << >>))
<1>. DEFINE nullifier == Compressor(privkey, in)
            nullifiers == <<nullifier>>
            notes == << >>
            message == Message(nullifiers, notes)
<1>3. /\ in.pubkey = PubKey(privkey)
      /\ UTXOHasher(in) \in U
      /\ N \cap {nullifier} = {}
      /\ N' = N \cup {nullifier} /\ U' = U
      /\ Announce(message)
      /\ Settle(caller, Moved(this, receiver, toInt(in.balance) - fee), txFee)
  BY DEF withdrawal, doublespend, inputsExist, WithdrawalCircuit
<1>4. nullifier \in Nullifiers /\ nullifier \in NullifierOf(in)
  BY <1>3, NullifierType
<1>5. nullifiers \in [1 .. 1 -> Nullifiers] /\ notes \in [1 .. 0 -> Notes]
  BY <1>4
<1>6. /\ message \in Messages
      /\ message.nullifiers = nullifiers
      /\ message.notes = notes
      /\ message.utxos = HashesOf(notes)
  <2>1. /\ \E m \in 0 .. 2 : nullifiers \in [1 .. m -> Nullifiers]
        /\ \E n \in 0 .. 2 : notes \in [1 .. n -> Notes]
    BY <1>5
  <2>. QED BY <2>1, MessageType
<1>7. Values(message.utxos) = {} /\ Values(message.nullifiers) = {nullifier}
  <2>1. Values(message.nullifiers) = {nullifier}
    <3>1. message.nullifiers \in [1 .. 1 -> Nullifiers] /\ message.nullifiers[1] = nullifier
      BY <1>5, <1>6
    <3>. HIDE DEF message
    <3>. QED BY <3>1, ShortValues
  <2>2. message.utxos \in [1 .. 0 -> Hashes]
    <3>1. DOMAIN notes = {} /\ 1 .. 0 = {}
      BY <1>5
    <3>2. message.utxos = [i \in DOMAIN notes |-> UTXOHasher(notes[i])]
      BY <1>6 DEF HashesOf
    <3>. QED BY <3>1, <3>2
  <2>3. Values(message.utxos) = {}
    BY <2>2, ShortValues
  <2>. QED BY <2>1, <2>3
<1>8. \A p \in DOMAIN message.nullifiers : SpendsExisting(message.nullifiers[p], p)
  BY <1>3, <1>4, <1>6 DEF SpendsExisting
<1>9. toInt(in.balance) - fee \in Int
  BY NoteType, NumbersAssumption DEF toInt, fee
<1>10. funds' \in [Accounts -> Nat]
  BY <1>3, <1>9, MovedType, SettleType DEF TypeOK
<1>11. LedgerStep(message)
  BY <1>3, <1>6, <1>7, <1>8, <1>10 DEF LedgerStep
<1>. QED BY <1>11

LEMMA WithdrawalStep ==
    ASSUME TypeOK, NEW txFee \in TxFees, Withdrawal(txFee)
    PROVE  \E message \in Messages : LedgerStep(message)
<1>1. PICK caller \in Accounts, ring \in Rings(Known), index \in Slots, privkey \in PrivKeys,
           receiver \in Accounts \cup {NoAccount} :
         withdrawal(caller, ring, Selector(ring, index), privkey, receiver, txFee)
  BY DEF Withdrawal
<1>2. Selector(ring, index) \in Notes /\ UTXOHasher(Selector(ring, index)) \in InHashes(ring)
  BY <1>1 DEF Rings, Known, Selector, InHashes
<1>. QED BY <1>1, <1>2, WithdrawalCall DEF LedgerStep

\* A transfer announces two new notes, the nullifier of an existing one, and
\* that of another one or a dummy.
LEMMA TransferCall ==
    ASSUME TypeOK, NEW caller \in Accounts, NEW ring,
           NEW in0 \in Notes, UTXOHasher(in0) \in InHashes(ring),
           NEW in1 \in Notes, UTXOHasher(in1) \in InHashes(ring),
           NEW privkey \in PrivKeys, NEW entropy \in Entropies, NEW choice, NEW txFee \in TxFees,
           transfer(caller, ring, in0, in1, privkey, entropy, choice, txFee)
    PROVE  \E out \in choice :
              /\ TransferOutputs(in0, in1, out)
              /\ LedgerStep(Message(TransferNullifiers(privkey, entropy, in0, in1), out))
<1>. DEFINE nullifiers == TransferNullifiers(privkey, entropy, in0, in1)
<1>3. /\ in0.pubkey = PubKey(privkey) /\ in1.pubkey = PubKey(privkey)
      /\ UTXOHasher(in0) \in U /\ UTXOHasher(in1) \in U
      /\ N \cap {nullifiers[1], nullifiers[2]} = {}
      /\ N' = N \cup {nullifiers[1], nullifiers[2]}
      /\ Settle(caller, Nothing, txFee)
  BY DEF transfer, doublespend, inputsExist, TransferInputs
<1>4. PICK out \in choice :
         /\ TransferOutputs(in0, in1, out)
         /\ U \cap {UTXOHasher(out[1]), UTXOHasher(out[2])} = {}
         /\ U' = U \cup {UTXOHasher(out[1]), UTXOHasher(out[2])}
         /\ Announce(Message(nullifiers, out))
  BY DEF transfer, outputExists
<1>. DEFINE message == Message(nullifiers, out)
<1>5. /\ nullifiers[1] \in Nullifiers /\ nullifiers[1] \in NullifierOf(in0)
      /\ nullifiers[2] \in Nullifiers
      /\ \/ nullifiers[2] \in NullifierOf(in1)
         \/ nullifiers[2] = Compress(privkey, entropy)
  BY <1>3, NullifierType DEF TransferNullifiers, Nullifiers
<1>6. nullifiers \in [1 .. 2 -> Nullifiers]
  BY <1>5 DEF TransferNullifiers
<1>7. out \in [1 .. 2 -> Notes]
  BY <1>4 DEF TransferOutputs
<1>8. /\ message \in Messages
      /\ message.nullifiers = nullifiers
      /\ message.notes = out
      /\ message.utxos = HashesOf(out)
  BY <1>6, <1>7, MessageType
<1>9. /\ Values(message.utxos) = {UTXOHasher(out[1]), UTXOHasher(out[2])}
      /\ Values(message.nullifiers) = {nullifiers[1], nullifiers[2]}
  <2>1. /\ message.utxos \in [1 .. 2 -> Hashes]
        /\ message.utxos[1] = UTXOHasher(out[1]) /\ message.utxos[2] = UTXOHasher(out[2])
    BY <1>7, <1>8, NoteType DEF HashesOf
  <2>. QED BY <1>6, <1>8, <2>1, ShortValues
<1>10. \A p \in DOMAIN message.nullifiers : SpendsExisting(message.nullifiers[p], p)
  BY <1>3, <1>5, <1>6, <1>8 DEF SpendsExisting
<1>11. funds' \in [Accounts -> Nat]
  BY <1>3, NothingType, SettleType DEF TypeOK
<1>12. LedgerStep(message)
  BY <1>3, <1>4, <1>8, <1>9, <1>10, <1>11 DEF LedgerStep
<1>. QED BY <1>4, <1>12

LEMMA TransferStep ==
    ASSUME TypeOK, NEW txFee \in TxFees, Transfer(txFee)
    PROVE  \E message \in Messages : LedgerStep(message)
<1>1. PICK caller \in Accounts, ring \in Rings(Known), index \in Slots \X Slots,
           privkey \in PrivKeys, entropy \in Entropies :
         transfer(caller, ring, Selector(ring, index[1]), Selector(ring, index[2]), privkey, entropy,
                  Outputs[InBalance(Selector(ring, index[1]), Selector(ring, index[2]))], txFee)
  BY DEF Transfer
<1>. DEFINE in0 == Selector(ring, index[1])
            in1 == Selector(ring, index[2])
            choice == Outputs[InBalance(in0, in1)]
<1>2. /\ in0 \in Notes /\ UTXOHasher(in0) \in InHashes(ring)
      /\ in1 \in Notes /\ UTXOHasher(in1) \in InHashes(ring)
  <2>1. index[1] \in Slots /\ index[2] \in Slots
    BY <1>1
  <2>. QED BY <1>1, <2>1 DEF Rings, Known, Selector, InHashes
<1>3. transfer(caller, ring, in0, in1, privkey, entropy, choice, txFee)
  BY <1>1
<1>. HIDE DEF in0, in1, choice
<1>. QED BY <1>2, <1>3, TransferCall DEF LedgerStep

\* A payment leaves the account data alone.
LEMMA PayCall ==
    ASSUME NEW txFee \in TxFees, NEW tx \in OtherTransactions,
           NEW sender \in Accounts, NEW receiver, pay(tx, sender, receiver, txFee)
    PROVE  /\ sender # receiver
           /\ Moved(sender, receiver, tx.amount) \in [Accounts -> Int] /\ tx.amount \in Nat
           /\ Settle(sender, Moved(sender, receiver, tx.amount), txFee)
           /\ UNCHANGED <<U, N, MESSAGE_NUM, M>>
<1>1. tx.amount \in {0} \cup Amounts
  BY Zenon DEF OtherTransactions
<1>2. \A a \in {0} \cup Amounts : a \in Nat
  BY AccountsAssumption
<1>3. tx.amount \in Nat
  BY <1>1, <1>2, Zenon
<1>. QED BY <1>3, MovedType DEF pay

LEMMA PayStep ==
    ASSUME TypeOK, NEW txFee \in TxFees, Pay(txFee)
    PROVE  MoneyStep
BY PayCall, SettleType DEF Pay, MoneyStep, TypeOK

\* Every call of the contract is a ledger step.
LEMMA NextStep ==
    ASSUME TypeOK, Next
    PROVE  (\E message \in Messages : LedgerStep(message)) \/ MoneyStep
BY DepositStep, WithdrawalStep, TransferStep, PayStep DEF Next
-----------------------------------------------------------------------------
\* Beside the invariants themselves, a message announces the hashes of its own
\* notes: that is how a later nullifier is traced to the message it spends.
MessagesMatch == \A i \in DOMAIN M : M[i].utxos = HashesOf(M[i].notes)

IInv == TypeOK /\ LogIsLedger /\ NoDoubleSpend /\ MessagesMatch /\ SpentWasCreated

\* What an announcement does to the log, when the log has no gap.
LEMMA AnnounceLog ==
    ASSUME MESSAGE_NUM \in Nat, DOMAIN M = 0 .. MESSAGE_NUM - 1,
           NEW message, Announce(message)
    PROVE  /\ MESSAGE_NUM' = MESSAGE_NUM + 1
           /\ MESSAGE_NUM \notin DOMAIN M
           /\ DOMAIN M' = DOMAIN M \cup {MESSAGE_NUM}
           /\ DOMAIN M' = 0 .. MESSAGE_NUM' - 1
           /\ \A i \in DOMAIN M : M'[i] = M[i] /\ i < MESSAGE_NUM
           /\ M'[MESSAGE_NUM] = message
<1>1. MESSAGE_NUM' = MESSAGE_NUM + 1
  BY DEF Announce
<1>2. M' = [i \in DOMAIN M \cup {MESSAGE_NUM} |-> IF i = MESSAGE_NUM THEN message ELSE M[i]]
  BY DEF Announce, Put
<1>3. DOMAIN M' = DOMAIN M \cup {MESSAGE_NUM}
  BY <1>2
<1>4. MESSAGE_NUM \notin DOMAIN M
  OBVIOUS
<1>. QED BY <1>1, <1>2, <1>3, <1>4

\* A union of sets over an index set that grows by one.
LEMMA UnionGrows ==
    ASSUME NEW S, NEW x, NEW F, NEW G, \A i \in S : G[i] = F[i]
    PROVE  UNION {G[i] : i \in S \cup {x}} = (UNION {F[i] : i \in S}) \cup G[x]
<1>1. ASSUME NEW v \in UNION {G[i] : i \in S \cup {x}}
      PROVE  v \in (UNION {F[i] : i \in S}) \cup G[x]
  <2>1. PICK i \in S \cup {x} : v \in G[i]
    BY <1>1
  <2>. QED BY <2>1
<1>2. ASSUME NEW v \in (UNION {F[i] : i \in S}) \cup G[x]
      PROVE  v \in UNION {G[i] : i \in S \cup {x}}
  <2>1. CASE v \in G[x]
    BY <2>1
  <2>2. CASE v \in UNION {F[i] : i \in S}
    <3>1. PICK i \in S : v \in F[i]
      BY <2>2
    <3>. QED BY <3>1
  <2>. QED BY <1>2, <2>1, <2>2
<1>. QED BY <1>1, <1>2

LEMMA InitInv == Init => IInv
<1>. SUFFICES ASSUME Init PROVE IInv
  OBVIOUS
<1>1. DOMAIN M = {} /\ U = {} /\ N = {} /\ MESSAGE_NUM = 0
  BY DEF Init
<1>2. TypeOK
  BY <1>1, AccountsAssumption DEF Init, TypeOK
<1>3. LogIsLedger
  BY <1>1 DEF LogIsLedger
<1>. QED BY <1>1, <1>2, <1>3 DEF IInv, NoDoubleSpend, MessagesMatch, SpentWasCreated

LEMMA StepInv ==
    ASSUME IInv, NEW message \in Messages, LedgerStep(message)
    PROVE  IInv'
<1>1. /\ MESSAGE_NUM' = MESSAGE_NUM + 1
      /\ MESSAGE_NUM \notin DOMAIN M
      /\ DOMAIN M' = DOMAIN M \cup {MESSAGE_NUM}
      /\ DOMAIN M' = 0 .. MESSAGE_NUM' - 1
      /\ \A i \in DOMAIN M : M'[i] = M[i] /\ i < MESSAGE_NUM
      /\ M'[MESSAGE_NUM] = message
  <2>1. MESSAGE_NUM \in Nat /\ DOMAIN M = 0 .. MESSAGE_NUM - 1 /\ Announce(message)
    BY DEF IInv, TypeOK, LogIsLedger, LedgerStep
  <2>. QED BY <2>1, AnnounceLog
<1>2. /\ U' = U \cup Values(message.utxos)
      /\ N' = N \cup Values(message.nullifiers)
      /\ U \cap Values(message.utxos) = {}
      /\ N \cap Values(message.nullifiers) = {}
      /\ message.utxos = HashesOf(message.notes)
      /\ \A p \in DOMAIN message.nullifiers : SpendsExisting(message.nullifiers[p], p)
      /\ funds' \in [Accounts -> Nat]
  BY DEF LedgerStep
<1>3. TypeOK'
  <2>1. Values(message.utxos) \subseteq Hashes /\ Values(message.nullifiers) \subseteq Nullifiers
    BY DEF Messages, Values
  <2>2. MESSAGE_NUM' \in Nat /\ DOMAIN M' \subseteq Nat
    BY <1>1 DEF IInv, TypeOK
  <2>. QED BY <1>1, <1>2, <2>1, <2>2 DEF IInv, TypeOK
<1>4. LogIsLedger'
  <2>1. UNION {Values(M'[i].utxos) : i \in DOMAIN M'}
          = (UNION {Values(M[i].utxos) : i \in DOMAIN M}) \cup Values(message.utxos)
    <3>. DEFINE F == [i \in DOMAIN M |-> Values(M[i].utxos)]
                G == [i \in DOMAIN M' |-> Values(M'[i].utxos)]
    <3>1. \A i \in DOMAIN M : G[i] = F[i]
      BY <1>1
    <3>2. G[MESSAGE_NUM] = Values(message.utxos)
      BY <1>1
    <3>3. UNION {G[i] : i \in DOMAIN M \cup {MESSAGE_NUM}}
            = (UNION {F[i] : i \in DOMAIN M}) \cup G[MESSAGE_NUM]
      <4>. HIDE DEF F, G
      <4>. QED BY <3>1, UnionGrows
    <3>4. /\ {G[i] : i \in DOMAIN M'} = {Values(M'[i].utxos) : i \in DOMAIN M'}
          /\ {F[i] : i \in DOMAIN M} = {Values(M[i].utxos) : i \in DOMAIN M}
      OBVIOUS
    <3>. QED BY <1>1, <3>2, <3>3, <3>4
  <2>2. UNION {Values(M'[i].nullifiers) : i \in DOMAIN M'}
          = (UNION {Values(M[i].nullifiers) : i \in DOMAIN M}) \cup Values(message.nullifiers)
    <3>. DEFINE F == [i \in DOMAIN M |-> Values(M[i].nullifiers)]
                G == [i \in DOMAIN M' |-> Values(M'[i].nullifiers)]
    <3>1. \A i \in DOMAIN M : G[i] = F[i]
      BY <1>1
    <3>2. G[MESSAGE_NUM] = Values(message.nullifiers)
      BY <1>1
    <3>3. UNION {G[i] : i \in DOMAIN M \cup {MESSAGE_NUM}}
            = (UNION {F[i] : i \in DOMAIN M}) \cup G[MESSAGE_NUM]
      <4>. HIDE DEF F, G
      <4>. QED BY <3>1, UnionGrows
    <3>4. /\ {G[i] : i \in DOMAIN M'} = {Values(M'[i].nullifiers) : i \in DOMAIN M'}
          /\ {F[i] : i \in DOMAIN M} = {Values(M[i].nullifiers) : i \in DOMAIN M}
      OBVIOUS
    <3>. QED BY <1>1, <3>2, <3>3, <3>4
  <2>3. /\ U = UNION {Values(M[i].utxos) : i \in DOMAIN M}
        /\ N = UNION {Values(M[i].nullifiers) : i \in DOMAIN M}
    BY DEF IInv, LogIsLedger
  <2>4. U' = UNION {Values(M'[i].utxos) : i \in DOMAIN M'}
    BY <1>2, <2>1, <2>3, Zenon
  <2>5. N' = UNION {Values(M'[i].nullifiers) : i \in DOMAIN M'}
    BY <1>2, <2>2, <2>3, Zenon
  <2>. QED BY <1>1, <2>4, <2>5 DEF LogIsLedger, Values
<1>5. NoDoubleSpend'
  <2>. SUFFICES ASSUME NEW i \in DOMAIN M', NEW j \in DOMAIN M', i # j
                PROVE  /\ Values(M'[i].nullifiers) \cap Values(M'[j].nullifiers) = {}
                       /\ Values(M'[i].utxos) \cap Values(M'[j].utxos) = {}
    BY DEF NoDoubleSpend, Values
  <2>1. \A l \in DOMAIN M : /\ Values(M[l].nullifiers) \subseteq N
                           /\ Values(M[l].utxos) \subseteq U
    BY DEF IInv, LogIsLedger
  <2>2. CASE i \in DOMAIN M /\ j \in DOMAIN M
    BY <1>1, <2>2 DEF IInv, NoDoubleSpend
  <2>3. CASE i = MESSAGE_NUM /\ j \in DOMAIN M
    BY <1>1, <1>2, <2>1, <2>3
  <2>4. CASE i \in DOMAIN M /\ j = MESSAGE_NUM
    BY <1>1, <1>2, <2>1, <2>4
  <2>. QED BY <1>1, <2>2, <2>3, <2>4
<1>6. MessagesMatch'
  BY <1>1, <1>2 DEF IInv, MessagesMatch, HashesOf
<1>7. SpentWasCreated'
  <2>. SUFFICES ASSUME NEW i \in DOMAIN M', NEW p \in DOMAIN M'[i].nullifiers
                PROVE  \/ \E j \in DOMAIN M' : /\ j < i
                                             /\ \E q \in DOMAIN M'[j].notes :
                                                  M'[i].nullifiers[p] \in NullifierOf(M'[j].notes[q])
                       \/ /\ p = 2
                          /\ \E k \in PrivKeys, e \in Entropies : M'[i].nullifiers[p] = Compress(k, e)
    BY DEF SpentWasCreated, NullifierOf
  <2>1. CASE i \in DOMAIN M
    <3>1. M'[i] = M[i] /\ p \in DOMAIN M[i].nullifiers
      BY <1>1, <2>1
    <3>. QED BY <1>1, <2>1, <3>1 DEF IInv, SpentWasCreated
  <2>2. CASE i = MESSAGE_NUM
    <3>1. M'[i] = message /\ SpendsExisting(message.nullifiers[p], p)
      BY <1>1, <1>2, <2>2
    <3>2. ASSUME NEW n \in Notes, UTXOHasher(n) \in U, message.nullifiers[p] \in NullifierOf(n)
          PROVE  \E j \in DOMAIN M : \E q \in DOMAIN M[j].notes : M[j].notes[q] = n
      <4>1. PICK j \in DOMAIN M : UTXOHasher(n) \in Values(M[j].utxos)
        BY <3>2 DEF IInv, LogIsLedger
      <4>2. PICK q \in DOMAIN M[j].notes : UTXOHasher(n) = UTXOHasher(M[j].notes[q])
        BY <4>1 DEF IInv, MessagesMatch, HashesOf, Values
      <4>3. M[j].notes[q] \in Notes
        BY <4>2 DEF IInv, TypeOK, Messages
      <4>4. M[j].notes[q] = n
        BY <4>2, <4>3, HasherInjective
      <4>. QED BY <4>4
    <3>. QED BY <1>1, <2>2, <3>1, <3>2 DEF SpendsExisting
  <2>. QED BY <1>1, <2>1, <2>2
<1>. QED BY <1>3, <1>4, <1>5, <1>6, <1>7 DEF IInv

\* A step that changes no account data keeps the invariant.
LEMMA MoneyInv ==
    ASSUME IInv, MoneyStep
    PROVE  IInv'
<1>1. U' = U /\ N' = N /\ MESSAGE_NUM' = MESSAGE_NUM /\ M' = M /\ funds' \in [Accounts -> Nat]
  BY DEF MoneyStep
<1>2. TypeOK' /\ MessagesMatch'
  BY <1>1 DEF IInv, TypeOK, MessagesMatch, HashesOf
<1>3. LogIsLedger'
  <2>1. DOMAIN M' = 0 .. MESSAGE_NUM' - 1
    BY <1>1 DEF IInv, LogIsLedger
  <2>2. /\ U = UNION {Values(M[i].utxos) : i \in DOMAIN M}
        /\ N = UNION {Values(M[i].nullifiers) : i \in DOMAIN M}
    BY DEF IInv, LogIsLedger
  <2>3. /\ U' = UNION {Values(M'[i].utxos) : i \in DOMAIN M'}
        /\ N' = UNION {Values(M'[i].nullifiers) : i \in DOMAIN M'}
    BY <1>1, <2>2
  <2>. QED BY <2>1, <2>3 DEF LogIsLedger, Values
<1>4. NoDoubleSpend'
  BY <1>1 DEF IInv, NoDoubleSpend, Values
<1>5. SpentWasCreated'
  BY <1>1 DEF IInv, SpentWasCreated, NullifierOf
<1>. QED BY <1>2, <1>3, <1>4, <1>5 DEF IInv

LEMMA StutterInv ==
    ASSUME IInv, UNCHANGED vars
    PROVE  IInv'
BY MoneyInv DEF vars, MoneyStep, IInv, TypeOK

LEMMA ContractStep ==
    ASSUME IInv, [Next]_vars
    PROVE  IInv'
<1>1. CASE Next
  BY <1>1, NextStep, StepInv, MoneyInv DEF IInv
<1>2. CASE UNCHANGED vars
  BY <1>2, StutterInv
<1>. QED BY <1>1, <1>2

LEMMA InvariantInductive == Spec => []IInv
<1>1. Init => IInv
  BY InitInv
<1>2. IInv /\ [Next]_vars => IInv'
  BY ContractStep
<1>. QED BY <1>1, <1>2, PTL DEF Spec

-----------------------------------------------------------------------------
\* The account data of the dApp and the balances always have their types.
THEOREM TypeCorrect == Spec => []TypeOK
<1>1. IInv => TypeOK
  BY DEF IInv
<1>. QED BY <1>1, InvariantInductive, PTL

\* Replaying the message log always gives the flags of the contract.
THEOREM LogComplete == Spec => []LogIsLedger
<1>1. IInv => LogIsLedger
  BY DEF IInv
<1>. QED BY <1>1, InvariantInductive, PTL

\* Nothing is announced as spent, or created, by two messages.
THEOREM NoDoubleSpending == Spec => []NoDoubleSpend
<1>1. IInv => NoDoubleSpend
  BY DEF IInv
<1>. QED BY <1>1, InvariantInductive, PTL

\* Every message that spends comes after the message it spends from.
THEOREM SpendingFollowsCreation == Spec => []SpentWasCreated
<1>1. IInv => SpentWasCreated
  BY DEF IInv
<1>. QED BY <1>1, InvariantInductive, PTL

\* No step clears a flag or touches a message that was announced.
THEOREM LogAppendOnly == Spec => AppendOnly
<1>. DEFINE A == /\ U \subseteq U' /\ N \subseteq N'
                /\ \A i \in DOMAIN M : i \in DOMAIN M' /\ M'[i] = M[i]
<1>1. IInv /\ [Next]_vars => [A]_vars
  <2>. SUFFICES ASSUME IInv, Next PROVE A
    OBVIOUS
  <2>1. ASSUME NEW message \in Messages, LedgerStep(message)
        PROVE  A
    <3>1. MESSAGE_NUM \in Nat /\ DOMAIN M = 0 .. MESSAGE_NUM - 1 /\ Announce(message)
      BY <2>1 DEF IInv, TypeOK, LogIsLedger, LedgerStep
    <3>. QED BY <2>1, <3>1, AnnounceLog DEF LedgerStep
  <2>2. CASE MoneyStep
    BY <2>2 DEF MoneyStep
  <2>. QED BY <2>1, <2>2, NextStep DEF IInv
<1>. QED BY <1>1, InvariantInductive, PTL DEF Spec, AppendOnly

-----------------------------------------------------------------------------
\* What a set of notes is worth, as a sum over the function of balances.
Balances == [n \in Notes |-> n.balance]

LEMMA ValueIsSum ==
    ASSUME NEW S \in SUBSET Notes, IsFiniteSet(S)
    PROVE  ValueOf(S) = SumOf(Balances, S)
<1>1. PICK h : IsSum(h, Balances, S)
  BY SumExists
<1>2. ASSUME NEW s \in SUBSET S, s # {}
      PROVE  Balances[CHOOSE x \in s : TRUE] = (CHOOSE x \in s : TRUE).balance
  BY <1>2 DEF Balances
<1>3. \A g : IsSum(g, Balances, S) <=>
               g = [s \in SUBSET S |-> IF s = {} THEN 0
                                       ELSE (CHOOSE x \in s : TRUE).balance + g[s \ {CHOOSE x \in s : TRUE}]]
  BY <1>2 DEF IsSum, Taken
<1>4. \E g : /\ g = [s \in SUBSET S |-> IF s = {} THEN 0
                                     ELSE (CHOOSE x \in s : TRUE).balance + g[s \ {CHOOSE x \in s : TRUE}]]
             /\ ValueOf(S) = g[S]
  <2>1. h = [s \in SUBSET S |-> IF s = {} THEN 0
                                ELSE (CHOOSE x \in s : TRUE).balance + h[s \ {CHOOSE x \in s : TRUE}]]
    BY <1>1, <1>3
  <2>. QED BY <2>1 DEF ValueOf, MapThenSumSet, MapThenFoldSet
<1>5. PICK g : IsSum(g, Balances, S) /\ ValueOf(S) = g[S]
  BY <1>3, <1>4
<1>6. S \in SUBSET S
  OBVIOUS
<1>. QED BY <1>5, <1>6, SumOfPart

\* A finite set of notes is worth a natural number, to which a further note
\* adds its balance; a part of it is worth no more.
LEMMA ValueOfNone == ValueOf({}) = 0
BY FS_EmptySet, ValueIsSum, SumEmpty

LEMMA ValueRemove ==
    ASSUME NEW S \in SUBSET Notes, IsFiniteSet(S), NEW n \in S
    PROVE  /\ IsFiniteSet(S \ {n})
           /\ ValueOf(S \ {n}) \in Int /\ ValueOf(S) \in Int
           /\ ValueOf(S) = n.balance + ValueOf(S \ {n})
<1>1. IsFiniteSet(S \ {n}) /\ S \ {n} \in SUBSET Notes
  BY FS_RemoveElement
<1>2. \A x \in S : Balances[x] \in Int
  BY NoteType DEF Balances
<1>3. Balances[n] = n.balance
  BY DEF Balances
<1>. QED BY <1>1, <1>2, <1>3, ValueIsSum, SumRemove

LEMMA ValueAdd ==
    ASSUME NEW S \in SUBSET Notes, IsFiniteSet(S), NEW n \in Notes, n \notin S
    PROVE  /\ IsFiniteSet(S \cup {n})
           /\ ValueOf(S \cup {n}) \in Int /\ ValueOf(S) \in Int
           /\ ValueOf(S \cup {n}) = ValueOf(S) + n.balance
<1>. DEFINE T == S \cup {n}
<1>1. IsFiniteSet(T) /\ T \in SUBSET Notes /\ n \in T /\ T \ {n} = S
  BY FS_AddElement
<1>2. n.balance \in Int
  BY NoteType
<1>. HIDE DEF T
<1>3. ValueOf(T) \in Int /\ ValueOf(S) \in Int /\ ValueOf(T) = n.balance + ValueOf(S)
  BY <1>1, ValueRemove
<1>4. ValueOf(T) = ValueOf(S) + n.balance
  BY <1>2, <1>3
<1>. QED BY <1>1, <1>3, <1>4 DEF T

LEMMA ValuePart ==
    ASSUME NEW S \in SUBSET Notes, IsFiniteSet(S), NEW T \in SUBSET S
    PROVE  /\ IsFiniteSet(T)
           /\ ValueOf(T) \in Nat /\ ValueOf(S) \in Nat /\ ValueOf(T) <= ValueOf(S)
           /\ \A n \in S : n.balance <= ValueOf(S)
<1>1. IsFiniteSet(T)
  BY FS_Subset
<1>2. \A x \in S : Balances[x] \in Nat /\ Balances[x] = x.balance
  BY DEF Balances, Notes, Candidates, Field
<1>3. T \in SUBSET Notes
  OBVIOUS
<1>4. ValueOf(S) = SumOf(Balances, S) /\ ValueOf(T) = SumOf(Balances, T)
  BY <1>1, <1>3, ValueIsSum
<1>5. SumOf(Balances, T) \in Nat /\ SumOf(Balances, S) \in Nat /\ SumOf(Balances, T) <= SumOf(Balances, S)
  BY <1>2, SumPart
<1>6. \A n \in S : Balances[n] <= SumOf(Balances, S)
  BY <1>2, SumMember
<1>. QED BY <1>1, <1>2, <1>4, <1>5, <1>6

LEMMA ValueOfOne ==
    ASSUME NEW n \in Notes
    PROVE  IsFiniteSet({n}) /\ ValueOf({n}) = n.balance
<1>1. IsFiniteSet({n}) /\ {n} \ {n} = {} /\ n.balance \in Int
  BY FS_Singleton, NoteType
<1>. QED BY <1>1, ValueRemove, ValueOfNone

LEMMA ValueOfTwo ==
    ASSUME NEW m \in Notes, NEW n \in Notes
    PROVE  /\ IsFiniteSet({m, n})
           /\ ValueOf({m, n}) = m.balance + (IF m = n THEN 0 ELSE n.balance)
<1>1. IsFiniteSet({m}) /\ m.balance \in Int
  BY ValueOfOne, NoteType
<1>2. ValueOf({m}) = m.balance
  BY ValueOfOne
<1>3. CASE m = n
  <2>1. {m, n} = {m}
    BY <1>3
  <2>2. m.balance + (IF m = n THEN 0 ELSE n.balance) = m.balance
    BY <1>1, <1>3
  <2>. QED BY <1>1, <1>2, <2>1, <2>2
<1>4. CASE m # n
  <2>1. {m, n} = {m} \cup {n}
    OBVIOUS
  <2>2. IsFiniteSet({m} \cup {n}) /\ ValueOf({m} \cup {n}) = m.balance + n.balance
    BY <1>1, <1>2, <1>4, ValueAdd
  <2>. QED BY <1>4, <2>1, <2>2
<1>. QED BY <1>3, <1>4
LEMMA ValueUnion ==
    ASSUME NEW S \in SUBSET Notes, IsFiniteSet(S), NEW T \in SUBSET Notes, IsFiniteSet(T), S \cap T = {}
    PROVE  IsFiniteSet(S \cup T) /\ ValueOf(S \cup T) = ValueOf(S) + ValueOf(T)
<1>1. IsFiniteSet(S \cup T) /\ S \cup T \in SUBSET Notes
  BY FS_Union
<1>2. \A x \in S \cup T : Balances[x] \in Int
  BY NoteType DEF Balances
<1>3. SumOf(Balances, S \cup T) = SumOf(Balances, S) + SumOf(Balances, T)
  BY <1>2, SumUnion
<1>. QED BY <1>1, <1>3, ValueIsSum

-----------------------------------------------------------------------------
\* Unspent notes after a call: none whose nullifier the call announced, and no
\* other than those of before and those whose hash it announced.
LEMMA UnspentAfter ==
    ASSUME NEW new \in SUBSET Notes, NEW X,
           U' = U \cup {UTXOHasher(n) : n \in new}, N' = N \cup X
    PROVE  Unspent' \subseteq {n \in Unspent : NullifierOf(n) \cap X = {}} \cup new
<1>1. Unspent' = {n \in Notes : UTXOHasher(n) \in U' /\ NullifierOf(n) \cap N' = {}}
  BY DEF Unspent, NullifierOf
<1>2. \A n \in Notes : UTXOHasher(n) \in {UTXOHasher(m) : m \in new} => n \in new
  BY HasherInjective
<1>. QED BY <1>1, <1>2 DEF Unspent

\* The owner's nullifier is the only one of a note.
LEMMA OneNullifier ==
    ASSUME NEW n \in Notes, NEW k \in PrivKeys, n.pubkey = PubKey(k)
    PROVE  NullifierOf(n) = {Compressor(k, n)}
BY PubKeyInjective DEF NullifierOf, Compressor

\* The balance of the dApp after a call.
LEMMA PotAfter ==
    ASSUME funds \in [Accounts -> Nat], NEW payer \in Accounts,
           NEW movement \in [Accounts -> Int], NEW txFee \in TxFees, Settle(payer, movement, txFee)
    PROVE  /\ payer = this => funds'[this] = funds[this] + movement[this] - txFee
           /\ payer # this => funds'[this] = funds[this] + movement[this]
<1>1. this \in Accounts /\ txFee \in Int
  BY AccountsAssumption
<1>2. funds' = [a \in Accounts |-> funds[a] + movement[a] - (IF a = payer THEN txFee ELSE 0)]
  BY DEF Settle
<1>. QED BY <1>1, <1>2

\* Below the field prime the balance equation is one of the integers.
LEMMA NoWrap ==
    ASSUME NEW total \in Nat, NEW sum \in Nat, total < FieldPrime, sum < FieldPrime,
           total % FieldPrime = sum % FieldPrime
    PROVE  total = sum
<1>1. FieldPrime \in Nat
  BY NumbersAssumption
<1>2. total % FieldPrime = total /\ sum % FieldPrime = sum
  BY <1>1
<1>. QED BY <1>2

-----------------------------------------------------------------------------
\* The history variable only observes: a step of Pot is one of ZWaves.
LEMMA PotIsNext == [PotNext]_potVars => [Next]_vars
<1>. SUFFICES ASSUME [PotNext]_potVars PROVE [Next]_vars
  OBVIOUS
<1>1. CASE UNCHANGED potVars
  BY <1>1 DEF potVars
<1>2. ASSUME NEW txFee \in TxFees, PotDeposit(txFee) \/ PotSpend(txFee) \/ PotPay(txFee)
      PROVE  Next
  BY <1>2 DEF PotDeposit, PotSpend, PotPay, Pay, Next
<1>. QED BY <1>1, <1>2 DEF PotNext

LEMMA PotInvariant == PotSpec => []IInv
<1>1. PotInit => IInv
  BY InitInv DEF PotInit
<1>2. IInv /\ [PotNext]_potVars => IInv'
  BY PotIsNext, ContractStep
<1>. QED BY <1>1, <1>2, PTL DEF PotSpec

-----------------------------------------------------------------------------
\* What every step does to what the dApp holds and the outlay: together they
\* gain as many WAVES as the notes it creates add to what is owed beyond those
\* it spends, or more.
PaysFor(gained, old, new) ==
    /\ old \subseteq Unspent /\ IsFiniteSet(old)
    /\ new \subseteq Notes /\ new \cap Unspent = {} /\ IsFiniteSet(new)
    /\ Unspent' \subseteq (Unspent \ old) \cup new
    /\ gained \in Int /\ outlay' \in Int
    /\ funds'[this] + outlay' = funds[this] + outlay + gained
    /\ gained + ValueOf(old) >= ValueOf(new)

\* What the notes are worth when some are replaced by others.
LEMMA ValueReplace ==
    ASSUME NEW S \in SUBSET Notes, IsFiniteSet(S), NEW old \in SUBSET S,
           NEW new \in SUBSET Notes, IsFiniteSet(new), new \cap S = {}
    PROVE  /\ IsFiniteSet((S \ old) \cup new)
           /\ ValueOf((S \ old) \cup new) = ValueOf(S) - ValueOf(old) + ValueOf(new)
           /\ ValueOf(S) \in Nat /\ ValueOf(old) \in Nat /\ ValueOf(new) \in Nat
<1>1. /\ S \ old \in SUBSET S /\ (S \ old) \cup old = S /\ (S \ old) \cap old = {}
      /\ (S \ old) \cap new = {} /\ new \in SUBSET new
      /\ S \ old \in SUBSET Notes /\ old \in SUBSET Notes
  OBVIOUS
<1>2. IsFiniteSet(S \ old) /\ IsFiniteSet(old)
  BY <1>1, FS_Subset
<1>3. /\ ValueOf(S) \in Nat /\ ValueOf(old) \in Nat /\ ValueOf(new) \in Nat
      /\ ValueOf(S \ old) \in Nat
  BY <1>1, ValuePart
<1>4. ValueOf(S) = ValueOf(S \ old) + ValueOf(old)
  BY <1>1, <1>2, ValueUnion
<1>5. /\ IsFiniteSet((S \ old) \cup new)
      /\ ValueOf((S \ old) \cup new) = ValueOf(S \ old) + ValueOf(new)
  BY <1>1, <1>2, ValueUnion
<1>. QED BY <1>3, <1>4, <1>5

LEMMA PaysForSolvency ==
    ASSUME IsFiniteSet(Unspent), Solvency,
           funds[this] \in Int, outlay \in Int, InitFunds[this] \in Int,
           NEW gained, NEW old, NEW new, PaysFor(gained, old, new)
    PROVE  IsFiniteSet(Unspent') /\ Solvency'
<1>. DEFINE after == (Unspent \ old) \cup new
<1>1. /\ Unspent \in SUBSET Notes /\ old \in SUBSET Unspent /\ new \in SUBSET Notes
      /\ IsFiniteSet(new) /\ new \cap Unspent = {}
  BY DEF PaysFor, Unspent
<1>2. /\ IsFiniteSet(after)
      /\ ValueOf(after) = ValueOf(Unspent) - ValueOf(old) + ValueOf(new)
      /\ ValueOf(Unspent) \in Nat /\ ValueOf(old) \in Nat /\ ValueOf(new) \in Nat
  BY <1>1, ValueReplace
<1>3. /\ IsFiniteSet(Unspent') /\ ValueOf(Unspent') \in Nat
      /\ ValueOf(Unspent') <= ValueOf(after) /\ ValueOf(after) \in Nat
  <2>1. after \in SUBSET Notes /\ Unspent' \in SUBSET after
    BY <1>1 DEF PaysFor
  <2>. HIDE DEF after
  <2>. QED BY <1>2, <2>1, ValuePart
<1>. HIDE DEF after
<1>4. /\ gained \in Int /\ funds'[this] + outlay' = funds[this] + outlay + gained
      /\ gained + ValueOf(old) >= ValueOf(new)
  BY DEF PaysFor
<1>5. funds[this] + outlay >= InitFunds[this] + ValueOf(Unspent)
  BY DEF Solvency, OutstandingValue
<1>6. funds'[this] + outlay' >= InitFunds[this] + ValueOf(Unspent')
  BY <1>2, <1>3, <1>4, <1>5
<1>. QED BY <1>3, <1>6 DEF Solvency, OutstandingValue

-----------------------------------------------------------------------------
\* A deposit is a payment of what its note is worth.
LEMMA DepositPays ==
    ASSUME TypeOK, outlay \in Int, NEW txFee \in TxFees, PotDeposit(txFee)
    PROVE  \E gained, old, new : PaysFor(gained, old, new)
<1>1. PICK caller \in Accounts, payments \in Payments, pubkey \in PubKeys, entropy \in Entropies :
         deposit(caller, payments, pubkey, entropy, txFee)
  BY DEF PotDeposit, Deposit
<1>. DEFINE balance == payments[1].amount
            note == [balance |-> balance, pubkey |-> pubkey, secret |-> Hash253(entropy)]
<1>2. balance \in Amounts
  BY <1>1, PaidAmount DEF deposit
<1>3. balance \in Int /\ balance \in Field /\ Num2Bits64(balance)
  BY <1>2, AmountType
<1>4. note \in Notes /\ note.balance = balance
  BY <1>1, <1>3 DEF Notes, Candidates, Secrets
<1>5. /\ U' = U \cup {UTXOHasher(note)} /\ N' = N
      /\ UTXOHasher(note) \notin U
      /\ caller # this
      /\ Settle(caller, Moved(caller, this, balance), txFee)
  BY <1>1 DEF deposit, outputExists
<1>. HIDE DEF note, balance
<1>6. funds'[this] = funds[this] + balance
  <2>1. Moved(caller, this, balance) \in [Accounts -> Int]
    BY <1>3, MovedType
  <2>2. Moved(caller, this, balance)[this] = balance
    BY AccountsAssumption DEF Moved
  <2>. QED BY <1>1, <1>5, <2>1, <2>2, PotAfter DEF TypeOK
<1>11. outlay' = outlay /\ funds[this] \in Int
  BY AccountsAssumption DEF PotDeposit, TypeOK
<1>7. Unspent' \subseteq Unspent \cup {note}
  <2>. DEFINE new == {note} X == {}
  <2>1. new \in SUBSET Notes /\ U' = U \cup {UTXOHasher(n) : n \in new} /\ N' = N \cup X
    BY <1>4, <1>5
  <2>2. Unspent' \subseteq {n \in Unspent : NullifierOf(n) \cap X = {}} \cup new
    <3>. HIDE DEF new, X
    <3>. QED BY <2>1, UnspentAfter
  <2>. QED BY <2>2
<1>8. note \notin Unspent
  BY <1>5 DEF Unspent
<1>9. /\ IsFiniteSet({}) /\ IsFiniteSet({note})
      /\ ValueOf({}) = 0 /\ ValueOf({note}) = balance
  BY <1>4, ValueOfOne, ValueOfNone, FS_EmptySet
<1>10. PaysFor(balance, {}, {note})
  BY <1>3, <1>4, <1>6, <1>7, <1>8, <1>9, <1>11 DEF PaysFor
<1>. QED BY <1>10

\* toInt never reads more than the balance.
LEMMA ToIntIsLess ==
    ASSUME NEW n \in Notes
    PROVE  toInt(n.balance) \in Int /\ toInt(n.balance) <= n.balance
<1>1. n.balance \in Int /\ BalanceLimit \in Nat
  BY NoteType, NumbersAssumption
<1>. QED BY <1>1 DEF toInt

\* A withdrawal pays out one unspent note, or less.
LEMMA WithdrawalPays ==
    ASSUME TypeOK, outlay \in Int, NEW txFee \in TxFees, Withdrawal(txFee),
           outlay' = outlay + txFee - fee
    PROVE  \E gained, old, new : PaysFor(gained, old, new)
<1>1. PICK caller \in Accounts, ring \in Rings(Known), index \in Slots, privkey \in PrivKeys,
           receiver \in Accounts \cup {NoAccount} :
         withdrawal(caller, ring, Selector(ring, index), privkey, receiver, txFee)
  BY DEF Withdrawal
<1>. DEFINE in == Selector(ring, index)
            nullifier == Compressor(privkey, in)
            amount == toInt(in.balance) - fee
<1>2. in \in Notes /\ UTXOHasher(in) \in InHashes(ring)
  BY <1>1 DEF Rings, Known, Selector, InHashes
<1>3. /\ caller = this
      /\ nullifier \notin N
      /\ UTXOHasher(in) \in U
      /\ in.pubkey = PubKey(privkey)
      /\ receiver # this
      /\ N' = N \cup {nullifier} /\ U' = U
      /\ Settle(caller, Moved(this, receiver, amount), txFee)
  BY <1>1, <1>2 DEF withdrawal, wrongCaller, doublespend, inputsExist, WithdrawalCircuit
<1>. HIDE DEF in, nullifier
<1>4. NullifierOf(in) = {nullifier}
  BY <1>2, <1>3, OneNullifier DEF nullifier
<1>5. in \in Unspent
  BY <1>2, <1>3, <1>4 DEF Unspent
<1>6. Unspent' \subseteq Unspent \ {in}
  <2>. DEFINE new == {} X == {nullifier}
  <2>1. new \in SUBSET Notes /\ U' = U \cup {UTXOHasher(n) : n \in new} /\ N' = N \cup X
    BY <1>3
  <2>2. Unspent' \subseteq {n \in Unspent : NullifierOf(n) \cap X = {}} \cup new
    <3>. HIDE DEF new, X
    <3>. QED BY <2>1, UnspentAfter
  <2>. QED BY <1>4, <2>2
<1>7. /\ toInt(in.balance) \in Int /\ toInt(in.balance) <= in.balance /\ in.balance \in Int
      /\ Fee \in Int /\ amount = toInt(in.balance) - Fee
  BY <1>2, ToIntIsLess, NoteType, NumbersAssumption DEF fee
<1>. DEFINE gained == 0 - toInt(in.balance)
<1>. HIDE DEF amount
<1>8. funds'[this] + outlay' = funds[this] + outlay + gained /\ outlay' \in Int
  <2>1. Moved(this, receiver, amount) \in [Accounts -> Int]
    BY <1>7, MovedType
  <2>2. Moved(this, receiver, amount)[this] = -amount
    BY <1>3, AccountsAssumption DEF Moved
  <2>3. funds[this] \in Int
    BY AccountsAssumption DEF TypeOK
  <2>4. funds'[this] = funds[this] + (-amount) - txFee
    BY <1>3, <2>1, <2>2, AccountsAssumption, PotAfter DEF TypeOK
  <2>5. txFee \in Int /\ outlay' = outlay + txFee - Fee
    BY AccountsAssumption DEF fee
  <2>. QED BY <1>7, <2>3, <2>4, <2>5
<1>9. /\ IsFiniteSet({}) /\ IsFiniteSet({in})
      /\ ValueOf({}) = 0 /\ ValueOf({in}) = in.balance
  BY <1>2, ValueOfOne, ValueOfNone, FS_EmptySet
<1>10. gained \in Int /\ gained + ValueOf({in}) >= 0
  BY <1>7, <1>9
<1>. HIDE DEF gained
<1>11. PaysFor(gained, {in}, {})
  BY <1>5, <1>6, <1>8, <1>9, <1>10 DEF PaysFor
<1>. QED BY <1>11

\* A transfer replaces one or two unspent notes by notes that are worth the
\* contract's fee less.
LEMMA TransferPays ==
    ASSUME TypeOK, outlay \in Int, NEW txFee \in TxFees, Transfer(txFee),
           outlay' = outlay + txFee - fee
    PROVE  \E gained, old, new : PaysFor(gained, old, new)
<1>1. PICK caller \in Accounts, ring \in Rings(Known), index \in Slots \X Slots,
           privkey \in PrivKeys, entropy \in Entropies :
         transfer(caller, ring, Selector(ring, index[1]), Selector(ring, index[2]), privkey, entropy,
                  Outputs[InBalance(Selector(ring, index[1]), Selector(ring, index[2]))], txFee)
  BY DEF Transfer
<1>. DEFINE in0 == Selector(ring, index[1])
            in1 == Selector(ring, index[2])
            nullifiers == TransferNullifiers(privkey, entropy, in0, in1)
<1>2. /\ in0 \in Notes /\ UTXOHasher(in0) \in InHashes(ring)
      /\ in1 \in Notes /\ UTXOHasher(in1) \in InHashes(ring)
  <2>1. index[1] \in Slots /\ index[2] \in Slots
    BY <1>1
  <2>. QED BY <1>1, <2>1 DEF Rings, Known, Selector, InHashes
<1>3. /\ caller = this
      /\ in0.pubkey = PubKey(privkey) /\ in1.pubkey = PubKey(privkey)
      /\ UTXOHasher(in0) \in U /\ UTXOHasher(in1) \in U
      /\ nullifiers[1] \notin N /\ nullifiers[2] \notin N
      /\ N' = N \cup {nullifiers[1], nullifiers[2]}
      /\ Settle(caller, Nothing, txFee)
  BY <1>1, <1>2 DEF transfer, wrongCaller, doublespend, inputsExist, TransferInputs
<1>4. PICK out : /\ TransferOutputs(in0, in1, out)
                 /\ UTXOHasher(out[1]) \notin U /\ UTXOHasher(out[2]) \notin U
                 /\ U' = U \cup {UTXOHasher(out[1]), UTXOHasher(out[2])}
  BY <1>1 DEF transfer, outputExists
<1>. DEFINE out0 == out[1]
            out1 == out[2]
<1>5. out0 \in Notes /\ out1 \in Notes
  BY <1>4 DEF TransferOutputs
<1>6. /\ NullifierOf(in0) = {Compressor(privkey, in0)}
      /\ NullifierOf(in1) = {Compressor(privkey, in1)}
  BY <1>1, <1>2, <1>3, OneNullifier
<1>7. SameInputs(in0, in1) <=> in0 = in1
  BY <1>2, HasherInjective DEF SameInputs
<1>8. /\ nullifiers[1] = Compressor(privkey, in0)
      /\ in0 # in1 => nullifiers[2] = Compressor(privkey, in1)
  BY <1>7 DEF TransferNullifiers
<1>9. in0.balance + (IF in0 = in1 THEN 0 ELSE in1.balance) = out0.balance + out1.balance + Fee
  <2>. DEFINE total == InBalance(in0, in1)
              sum == out0.balance + out1.balance + Fee
  <2>1. /\ \A n \in {in0, in1, out0, out1} : n.balance \in Nat /\ n.balance < BalanceLimit
        /\ Fee \in Nat /\ BalanceLimit \in Nat /\ FieldPrime \in Nat
        /\ 2 * BalanceLimit + Fee < FieldPrime
    BY <1>2, <1>5, NumbersAssumption DEF Notes, Candidates, Num2Bits64, Field
  <2>2. total = in0.balance + (IF in0 = in1 THEN 0 ELSE in1.balance)
    BY <1>7 DEF InBalance
  <2>3. total % FieldPrime = sum % FieldPrime
    BY <1>4 DEF TransferOutputs, Balanced, C
  <2>4. total \in Nat /\ total < FieldPrime
    BY <2>1, <2>2
  <2>5. sum \in Nat /\ sum < FieldPrime
    BY <2>1
  <2>6. total = sum
    <3>. HIDE DEF total, sum
    <3>. QED BY <2>3, <2>4, <2>5, NoWrap
  <2>. QED BY <2>2, <2>6
<1>. HIDE DEF in0, in1, out0, out1, nullifiers
<1>10. in0 \in Unspent /\ in1 \in Unspent
  BY <1>2, <1>3, <1>6, <1>8 DEF Unspent
<1>11. Unspent' \subseteq (Unspent \ {in0, in1}) \cup {out0, out1}
  <2>. DEFINE new == {out0, out1} X == {nullifiers[1], nullifiers[2]}
  <2>1. new \in SUBSET Notes /\ U' = U \cup {UTXOHasher(n) : n \in new} /\ N' = N \cup X
    BY <1>3, <1>4, <1>5 DEF out0, out1
  <2>2. Unspent' \subseteq {n \in Unspent : NullifierOf(n) \cap X = {}} \cup new
    <3>. HIDE DEF new, X
    <3>. QED BY <2>1, UnspentAfter
  <2>. QED BY <1>6, <1>8, <2>2
<1>12. out0 \notin Unspent /\ out1 \notin Unspent
  BY <1>4 DEF Unspent, out0, out1
<1>. DEFINE gained == 0 - Fee
<1>13. funds'[this] + outlay' = funds[this] + outlay + gained /\ gained \in Int /\ outlay' \in Int
  <2>1. Nothing[this] = 0 /\ funds[this] \in Int /\ Fee \in Int
    BY AccountsAssumption, NumbersAssumption DEF Nothing, TypeOK
  <2>2. funds'[this] = funds[this] + 0 - txFee
    BY <1>3, <2>1, AccountsAssumption, NothingType, PotAfter DEF TypeOK
  <2>3. txFee \in Int /\ outlay' = outlay + txFee - Fee
    BY AccountsAssumption DEF fee
  <2>. QED BY <2>1, <2>2, <2>3
<1>14. gained + ValueOf({in0, in1}) >= ValueOf({out0, out1})
  <2>1. /\ ValueOf({in0, in1}) = in0.balance + (IF in0 = in1 THEN 0 ELSE in1.balance)
        /\ ValueOf({out0, out1}) = out0.balance + (IF out0 = out1 THEN 0 ELSE out1.balance)
    BY <1>2, <1>5, ValueOfTwo
  <2>2. /\ out0.balance \in Nat /\ out1.balance \in Nat /\ Fee \in Int
    BY <1>5, NumbersAssumption DEF Notes, Candidates, Field
  <2>. QED BY <1>9, <2>1, <2>2
<1>. HIDE DEF gained
<1>15. PaysFor(gained, {in0, in1}, {out0, out1})
  BY <1>2, <1>5, <1>10, <1>11, <1>12, <1>13, <1>14, ValueOfTwo DEF PaysFor
<1>. QED BY <1>15

\* A payment elsewhere comes out of the outlay, one to the dApp is a gain.
LEMMA PayPays ==
    ASSUME TypeOK, outlay \in Int, NEW txFee \in TxFees, PotPay(txFee)
    PROVE  \E gained, old, new : PaysFor(gained, old, new)
<1>1. PICK tx \in OtherTransactions, sender \in Accounts, receiver \in Accounts :
         /\ pay(tx, sender, receiver, txFee)
         /\ outlay' = outlay + (IF sender = this THEN tx.amount + txFee ELSE 0)
  BY DEF PotPay
<1>. DEFINE amount == tx.amount
            movement == Moved(sender, receiver, amount)
            gained == IF receiver = this THEN amount ELSE 0
<1>2. /\ sender # receiver
      /\ movement \in [Accounts -> Int] /\ amount \in Nat
      /\ Settle(sender, movement, txFee)
      /\ U' = U /\ N' = N
  BY <1>1, PayCall
<1>3. movement[this] = IF receiver = this THEN amount ELSE IF sender = this THEN -amount ELSE 0
  BY AccountsAssumption DEF Moved
<1>4. funds[this] \in Int /\ txFee \in Int
  BY AccountsAssumption DEF TypeOK
<1>. HIDE DEF movement, amount
<1>5. /\ sender = this => funds'[this] = funds[this] + movement[this] - txFee
      /\ sender # this => funds'[this] = funds[this] + movement[this]
  BY <1>1, <1>2, PotAfter DEF TypeOK
<1>6. outlay' = outlay + (IF sender = this THEN amount + txFee ELSE 0)
  BY <1>1 DEF amount
<1>7. funds'[this] + outlay' = funds[this] + outlay + gained /\ gained \in Nat /\ outlay' \in Int
  BY <1>2, <1>3, <1>4, <1>5, <1>6
<1>8. Unspent' = Unspent
  BY <1>2 DEF Unspent, NullifierOf
<1>. HIDE DEF gained
<1>9. PaysFor(gained, {}, {})
  BY <1>7, <1>8, ValueOfNone, FS_EmptySet DEF PaysFor
<1>. QED BY <1>9

\* The dApp can pay out what it owes once the outlay is put back: the invariant
\* is that, and that what it owes is finitely many notes.
Backed == IsFiniteSet(Unspent) /\ outlay \in Int /\ Solvency

LEMMA BackedInductive == PotSpec => []Backed
<1>1. PotInit => Backed
  <2>. SUFFICES ASSUME PotInit PROVE Backed
    OBVIOUS
  <2>1. Unspent = {}
    BY DEF PotInit, Init, Unspent
  <2>2. InitFunds[this] \in Nat /\ funds = InitFunds /\ outlay = 0
    BY AccountsAssumption DEF PotInit, Init
  <2>. QED BY <2>1, <2>2, FS_EmptySet, ValueOfNone DEF Backed, Solvency, OutstandingValue
<1>2. TypeOK /\ Backed /\ [PotNext]_potVars => Backed'
  <2>. SUFFICES ASSUME TypeOK, Backed, [PotNext]_potVars PROVE Backed'
    OBVIOUS
  <2>1. funds[this] \in Int /\ InitFunds[this] \in Int /\ outlay \in Int
    BY AccountsAssumption DEF TypeOK, Backed
  <2>2. ASSUME \E gained, old, new : PaysFor(gained, old, new)
        PROVE  Backed'
    <3>1. PICK gained, old, new : PaysFor(gained, old, new)
      BY <2>2
    <3>2. outlay' \in Int
      BY <3>1 DEF PaysFor
    <3>. QED BY <2>1, <3>1, <3>2, PaysForSolvency DEF Backed
  <2>3. ASSUME NEW txFee \in TxFees, PotDeposit(txFee) PROVE Backed'
    BY <2>1, <2>2, <2>3, DepositPays
  <2>4. ASSUME NEW txFee \in TxFees, PotSpend(txFee) PROVE Backed'
    BY <2>1, <2>2, <2>4, WithdrawalPays, TransferPays DEF PotSpend
  <2>5. ASSUME NEW txFee \in TxFees, PotPay(txFee) PROVE Backed'
    BY <2>1, <2>2, <2>5, PayPays
  <2>6. CASE UNCHANGED potVars
    <3>1. Unspent' = Unspent /\ funds' = funds /\ outlay' = outlay
      BY <2>6 DEF potVars, vars, Unspent, NullifierOf
    <3>. QED BY <3>1 DEF Backed, Solvency, OutstandingValue
  <2>. QED BY <2>3, <2>4, <2>5, <2>6 DEF PotNext
<1>3. IInv => TypeOK
  BY DEF IInv
<1>. QED BY <1>1, <1>2, <1>3, PotInvariant, PTL DEF PotSpec

\* Whatever is called with whatever arguments that a proof can be made for, at
\* whatever fee, and whatever else is paid from the account: the dApp holds what
\* it started with and every unspent note, but for what it spent as excess fees
\* and as payments elsewhere.
THEOREM AlwaysSolvent == PotSpec => []Solvency
<1>1. Backed => Solvency
  BY DEF Backed
<1>. QED BY <1>1, BackedInductive, PTL

-----------------------------------------------------------------------------
\* A movement takes from one account what it gives to another, so that a
\* transaction costs the accounts together its fee and nothing else.
LEMMA MovedSum ==
    ASSUME NEW from \in Accounts, NEW to \in Accounts, from # to, NEW amount \in Int
    PROVE  SumOf(Moved(from, to, amount), Accounts) = 0
<1>. DEFINE moved  == Moved(from, to, amount)
            given  == [a \in Accounts |-> IF a = to THEN amount ELSE 0]
            taken  == [a \in Accounts |-> IF a = from THEN -amount ELSE 0]
<1>1. /\ \A a \in Accounts : given[a] \in Int /\ taken[a] \in Int
      /\ \A a \in Accounts : moved[a] = given[a] + taken[a]
      /\ given[to] = amount /\ \A a \in Accounts \ {to} : given[a] = 0
      /\ taken[from] = -amount /\ \A a \in Accounts \ {from} : taken[a] = 0
  BY DEF Moved
<1>2. IsFiniteSet(Accounts) /\ -amount \in Int
  BY SupplyAssumption
<1>. HIDE DEF moved, given, taken
<1>3. SumOf(given, Accounts) = amount
  BY <1>1, <1>2, SumSingle
<1>4. SumOf(taken, Accounts) = -amount
  BY <1>1, <1>2, SumSingle
<1>5. SumOf(moved, Accounts) = SumOf(given, Accounts) + SumOf(taken, Accounts)
  BY <1>1, <1>2, SumPlus
<1>. QED BY <1>3, <1>4, <1>5 DEF moved

LEMMA SupplyIsSum ==
    ASSUME NEW balances
    PROVE  Supply(balances) = SumOf(balances, Accounts)
BY DEF Supply, SumOf

LEMMA SettleSupply ==
    ASSUME funds \in [Accounts -> Nat], NEW payer \in Accounts,
           NEW movement \in [Accounts -> Int], SumOf(movement, Accounts) = 0,
           NEW txFee \in TxFees, Settle(payer, movement, txFee)
    PROVE  Supply(funds') = Supply(funds) - txFee
<1>. DEFINE paid  == [a \in Accounts |-> IF a = payer THEN -txFee ELSE 0]
            moved == [a \in Accounts |-> funds[a] + movement[a]]
            after == [a \in Accounts |-> moved[a] + paid[a]]
<1>1. IsFiniteSet(Accounts) /\ txFee \in Nat /\ -txFee \in Int
  BY SupplyAssumption, AccountsAssumption
<1>2. funds' = after
  <2>1. \A a \in Accounts : funds[a] + movement[a] - (IF a = payer THEN txFee ELSE 0) = moved[a] + paid[a]
    BY <1>1
  <2>2. funds' = [a \in Accounts |-> funds[a] + movement[a] - (IF a = payer THEN txFee ELSE 0)]
    BY DEF Settle
  <2>. HIDE DEF moved, paid
  <2>. QED BY <2>1, <2>2
<1>3. /\ \A a \in Accounts : funds[a] \in Int /\ movement[a] \in Int /\ moved[a] = funds[a] + movement[a]
      /\ \A a \in Accounts : moved[a] \in Int /\ paid[a] \in Int /\ after[a] = moved[a] + paid[a]
      /\ paid[payer] = -txFee /\ \A a \in Accounts \ {payer} : paid[a] = 0
  BY <1>1
<1>. HIDE DEF moved, paid, after
<1>4. SumOf(moved, Accounts) = SumOf(funds, Accounts) + SumOf(movement, Accounts)
  BY <1>1, <1>3, SumPlus
<1>5. SumOf(after, Accounts) = SumOf(moved, Accounts) + SumOf(paid, Accounts)
  BY <1>1, <1>3, SumPlus
<1>6. SumOf(paid, Accounts) = -txFee
  BY <1>1, <1>3, SumSingle
<1>7. SumOf(funds, Accounts) \in Int
  BY <1>1, <1>3, SumInt
<1>8. SumOf(after, Accounts) = SumOf(funds, Accounts) - txFee
  BY <1>1, <1>4, <1>5, <1>6, <1>7
<1>. QED BY <1>2, <1>8, SupplyIsSum

LEMMA CallSupply ==
    ASSUME TypeOK, NEW txFee \in TxFees,
           Deposit(txFee) \/ Withdrawal(txFee) \/ Transfer(txFee) \/ Pay(txFee)
    PROVE  Supply(funds') = Supply(funds) - txFee
<1>1. funds \in [Accounts -> Nat]
  BY DEF TypeOK
<1>2. CASE Deposit(txFee)
  <2>1. PICK caller \in Accounts, payments \in Payments, pubkey \in PubKeys, entropy \in Entropies :
           deposit(caller, payments, pubkey, entropy, txFee)
    BY <1>2 DEF Deposit
  <2>. DEFINE balance == payments[1].amount
  <2>2. balance \in Int
    <3>1. balance \in Amounts
      BY <2>1, PaidAmount DEF deposit
    <3>. QED BY <3>1, AmountType
  <2>3. caller # this /\ Settle(caller, Moved(caller, this, balance), txFee)
    BY <2>1 DEF deposit
  <2>. HIDE DEF balance
  <2>4. SumOf(Moved(caller, this, balance), Accounts) = 0
    BY <2>2, <2>3, MovedSum, AccountsAssumption
  <2>5. Moved(caller, this, balance) \in [Accounts -> Int]
    BY <2>2, MovedType
  <2>. QED BY <1>1, <2>3, <2>4, <2>5, SettleSupply
<1>3. CASE Withdrawal(txFee)
  <2>1. PICK caller \in Accounts, ring \in Rings(Known), index \in Slots, privkey \in PrivKeys,
             receiver \in Accounts \cup {NoAccount} :
           withdrawal(caller, ring, Selector(ring, index), privkey, receiver, txFee)
    BY <1>3 DEF Withdrawal
  <2>. DEFINE in == Selector(ring, index)
              amount == toInt(in.balance) - fee
  <2>2. in \in Notes
    BY <2>1 DEF Rings, Known, Selector
  <2>3. amount \in Int
    BY <2>2, ToIntIsLess, NumbersAssumption DEF fee
  <2>4. receiver \in Accounts /\ receiver # this /\ Settle(caller, Moved(this, receiver, amount), txFee)
    BY <2>1 DEF withdrawal, WithdrawalCircuit
  <2>. HIDE DEF in, amount
  <2>5. SumOf(Moved(this, receiver, amount), Accounts) = 0
    BY <2>3, <2>4, MovedSum, AccountsAssumption
  <2>6. Moved(this, receiver, amount) \in [Accounts -> Int]
    BY <2>3, MovedType
  <2>. QED BY <1>1, <2>4, <2>5, <2>6, SettleSupply
<1>4. CASE Transfer(txFee)
  <2>1. PICK caller \in Accounts : Settle(caller, Nothing, txFee)
    BY <1>4 DEF Transfer, transfer
  <2>2. SumOf(Nothing, Accounts) = 0
    BY SupplyAssumption, SumZero DEF Nothing
  <2>. QED BY <1>1, <2>1, <2>2, NothingType, SettleSupply
<1>5. CASE Pay(txFee)
  <2>1. PICK tx \in OtherTransactions, sender \in Accounts, receiver \in Accounts :
           pay(tx, sender, receiver, txFee)
    BY <1>5 DEF Pay
  <2>2. /\ sender # receiver
        /\ Moved(sender, receiver, tx.amount) \in [Accounts -> Int] /\ tx.amount \in Int
        /\ Settle(sender, Moved(sender, receiver, tx.amount), txFee)
    BY <2>1, PayCall
  <2>3. SumOf(Moved(sender, receiver, tx.amount), Accounts) = 0
    BY <2>2, MovedSum
  <2>. QED BY <1>1, <2>2, <2>3, SettleSupply
<1>. QED BY <1>2, <1>3, <1>4, <1>5

\* Every call that was mined cost a fee: the WAVES of all accounts together are
\* fewer than they were at first, by one for every message at the least.
FeesPaid == Supply(funds) + MESSAGE_NUM <= Supply(InitFunds)

LEMMA FeesPaidStep ==
    ASSUME IInv, FeesPaid, [Next]_vars
    PROVE  FeesPaid'
<1>1. CASE Next
  <2>1. PICK txFee \in TxFees : Deposit(txFee) \/ Withdrawal(txFee) \/ Transfer(txFee) \/ Pay(txFee)
    BY <1>1 DEF Next
  <2>2. Supply(funds') = Supply(funds) - txFee /\ txFee \in Nat /\ txFee >= 1
    BY <2>1, CallSupply, AccountsAssumption DEF IInv
  <2>3. (MESSAGE_NUM' = MESSAGE_NUM + 1 \/ MESSAGE_NUM' = MESSAGE_NUM) /\ MESSAGE_NUM \in Nat
    BY <1>1, NextStep DEF IInv, TypeOK, LedgerStep, MoneyStep, Announce
  <2>4. Supply(funds) \in Int /\ Supply(InitFunds) \in Int
    <3>1. /\ IsFiniteSet(Accounts)
          /\ \A a \in Accounts : funds[a] \in Int /\ InitFunds[a] \in Int
      BY SupplyAssumption, AccountsAssumption DEF IInv, TypeOK
    <3>. QED BY <3>1, SumInt, SupplyIsSum
  <2>. QED BY <2>2, <2>3, <2>4 DEF FeesPaid
<1>2. CASE UNCHANGED vars
  BY <1>2 DEF vars, FeesPaid
<1>. QED BY <1>1, <1>2

LEMMA FeesPaidInductive == PotSpec => []FeesPaid
<1>1. PotInit => FeesPaid
  <2>1. Supply(InitFunds) \in Int
    <3>1. IsFiniteSet(Accounts) /\ \A a \in Accounts : InitFunds[a] \in Int
      BY SupplyAssumption, AccountsAssumption
    <3>. QED BY <3>1, SumInt, SupplyIsSum
  <2>. QED BY <2>1 DEF PotInit, Init, FeesPaid
<1>2. IInv /\ FeesPaid /\ [PotNext]_potVars => FeesPaid'
  BY PotIsNext, FeesPaidStep
<1>. QED BY <1>1, <1>2, PotInvariant, PTL DEF PotSpec

\* What is owed is not more than the WAVES that are left and the outlay; a note,
\* once there is one, cost a fee.
LEMMA NotesAreSmall ==
    ASSUME IInv, Backed, FeesPaid
    PROVE  BalancesReadPositive
<1>. SUFFICES ASSUME 2 * (Supply(InitFunds) + outlay) <= BalanceLimit, NEW n \in Unspent
              PROVE  toInt(n.balance) = n.balance
  BY DEF BalancesReadPositive
<1>1. n \in Notes /\ UTXOHasher(n) \in U
  BY DEF Unspent
<1>2. MESSAGE_NUM \in Nat \ {0}
  <2>1. PICK i \in DOMAIN M : UTXOHasher(n) \in Values(M[i].utxos)
    BY <1>1 DEF IInv, LogIsLedger
  <2>. QED BY <2>1 DEF IInv, LogIsLedger, TypeOK
<1>3. BalanceLimit \in Nat /\ outlay \in Int
  BY NumbersAssumption DEF Backed
<1>4. n.balance \in Nat /\ n.balance <= ValueOf(Unspent) /\ ValueOf(Unspent) \in Nat
  <2>1. Unspent \in SUBSET Notes /\ IsFiniteSet(Unspent) /\ Unspent \in SUBSET Unspent
    BY DEF Unspent, Backed
  <2>2. n.balance \in Nat
    BY <1>1 DEF Notes, Candidates, Field
  <2>. QED BY <2>1, <2>2, ValuePart
<1>5. /\ IsFiniteSet(Accounts) /\ this \in Accounts
      /\ \A a \in Accounts : funds[a] \in Nat /\ InitFunds[a] \in Nat
  BY SupplyAssumption, AccountsAssumption DEF IInv, TypeOK
<1>6. funds[this] <= Supply(funds) /\ Supply(funds) \in Int /\ Supply(InitFunds) \in Int
  <2>1. \A a \in Accounts : funds[a] \in Int /\ InitFunds[a] \in Int
    BY <1>5
  <2>. QED BY <1>5, <2>1, SumMember, SumInt, SupplyIsSum
<1>7. funds[this] + outlay >= InitFunds[this] + ValueOf(Unspent)
  BY DEF Backed, Solvency, OutstandingValue
<1>8. n.balance < Supply(InitFunds) + outlay
  <2>1. Supply(funds) < Supply(InitFunds)
    BY <1>2, <1>6 DEF FeesPaid
  <2>. QED BY <1>3, <1>4, <1>5, <1>6, <1>7, <2>1
<1>9. 2 * n.balance < BalanceLimit
  BY <1>3, <1>4, <1>6, <1>8
<1>. QED BY <1>4, <1>9 DEF toInt

\* No note is worth so much that toInt reads its balance as negative, unless
\* the dApp paid out WAVES for nothing that were deposited again.
THEOREM NotesCanBeWithdrawn == PotSpec => []BalancesReadPositive
BY NotesAreSmall, PotInvariant, BackedInductive, FeesPaidInductive, PTL
=============================================================================
