---------------------------- MODULE Client_proofs ----------------------------
(***************************************************************************)
(* Theorems about Client, for any number of processes and seeds.           *)
(***************************************************************************)
EXTENDS Client, ZWaves_proofs

\* The private keys of the seeds.
Keys == {Seed[p] : p \in Procs}

\* What is worth less than the fee, of the notes with a private key's pubkey.
DustOf(k) == {n \in Unspent : n.pubkey = PubKey(k) /\ n.balance < fee}

-----------------------------------------------------------------------------
\* The transactions that commands broadcast.
IsDeposit(tx) ==
    /\ tx.call = "deposit"
    /\ Len(tx.in) = 0 /\ Len(tx.out) = 1
    /\ tx.entropy \in Entropies /\ tx.out[1].secret = Hash253(tx.entropy)

IsWithdrawal(tx) ==
    /\ tx.call = "withdrawal"
    /\ Len(tx.in) = 1 /\ Len(tx.out) = 0
    /\ tx.key \in Keys /\ tx.in[1].pubkey = PubKey(tx.key)

IsTransfer(tx) ==
    /\ tx.call = "transfer"
    /\ Len(tx.in) = 2 /\ Len(tx.out) = 2
    /\ tx.key \in Keys /\ tx.in[1].pubkey = PubKey(tx.key) /\ tx.in[2].pubkey = PubKey(tx.key)
    /\ tx.entropy \in Entropies

\* A transfer either splits the one asset its process saw, or merges two.  Only
\* a WITHDRAWAL of a negative balance splits off less than the fee.
HalfOf(n, k) ==
    /\ n.pubkey = PubKey(k)
    /\ \E r \in Requests : r.command = "WITHDRAWAL" /\ r.balance < 0 /\ n.balance = r.balance + fee

Splits(tx) ==
    /\ tx.in[1] = tx.in[2] /\ tx.in[1].balance >= fee
    /\ tx.out[1].balance >= fee \/ HalfOf(tx.out[1], tx.key)
    /\ \E m \in Nat : m <= MESSAGE_NUM /\ PrefixAssets(tx.key, m) = {tx.in[1]}

Merges(tx) ==
    /\ tx.in[1] # tx.in[2]
    /\ tx.out[1].pubkey = PubKey(Stranger)
    /\ tx.out[2].balance = tx.in[1].balance + tx.in[2].balance - fee

\* What is pending: its inputs exist, and it is of one of these kinds.
TxInv(tx) ==
    /\ \A n \in Values(tx.in) : UTXOHasher(n) \in U
    /\ \/ IsDeposit(tx) /\ tx.out[1].balance >= fee
       \/ IsWithdrawal(tx)
       \/ /\ IsTransfer(tx)
          /\ tx.out[2].pubkey = PubKey(tx.key)
          /\ Splits(tx) \/ Merges(tx)

\* A wallet that once saw one asset only, worth the fee or more, has no dust
\* as long as that one is unspent.
LoneAsset ==
    \A k \in Keys, n \in Nat, x \in Unspent :
        (n <= MESSAGE_NUM /\ PrefixAssets(k, n) = {x} /\ x.balance >= fee) => DustOf(k) = {}

\* A seed owns one note below the fee at most, two after the split of a
\* negative withdrawal.
OneDust == \A k \in Keys : Halved(k) \/ \A m, n \in DustOf(k) : m = n
TwoDust == \A k \in Keys : \A l, m, n \in DustOf(k) : l = m \/ m = n \/ l = n

\* The variables of a process.
Places == {"shell", "deposit", "collect", "abstractTransfer", "syncData", "withdrawal", "lastCollect"}
Commands == [command : {"DETAILS", "DEPOSIT", "TRANSFER", "WITHDRAWAL"}, balance : Int, pubkey : PubKeys]

ClientTypeOK ==
    /\ at \in [Procs -> Places]
    /\ job \in [Procs -> Commands \cup {None}]
    /\ known \in [Procs -> Nat]
    /\ todo \in [Procs -> SUBSET Notes]
    /\ pending \in [Procs -> Transactions \cup {None}]
    /\ orphans \subseteq Transactions

\* Where each command can be.
JobInv(p) ==
    /\ at[p] # "shell" =>
          /\ job[p] \in Commands
          /\ job[p].command \in {"DEPOSIT", "TRANSFER"} => job[p].balance >= fee
          /\ job[p].command = "WITHDRAWAL" => job[p] \in Requests
    /\ at[p] = "deposit" => job[p].command = "DEPOSIT"
    /\ at[p] \in {"abstractTransfer", "syncData"} => job[p].command \in {"TRANSFER", "WITHDRAWAL"}
    /\ at[p] \in {"withdrawal", "lastCollect"} => job[p].command = "WITHDRAWAL"

\* What a process knows of its notes between two awaits.
ProcInv(p) ==
    /\ known[p] <= MESSAGE_NUM
    /\ at[p] = "abstractTransfer" => \A a, b \in assets(p) : a = b
    /\ \A a \in todo[p] : a.pubkey = own(p) /\ UTXOHasher(a) \in U
    /\ \A a, b \in todo[p] : a.balance < fee /\ b.balance < fee => a = b \/ Halved(Seed[p])

\* A process waits for a withdrawal where it paid out what was asked.
PaysInv(p) ==
    (pending[p] # None /\ pending[p].call = "withdrawal") =>
        at[p] = "lastCollect" /\ pending[p].in[1].balance = job[p].balance + fee

\* The inductive invariant of the commands, beside that of the contract.
ClientInv ==
    /\ ClientTypeOK
    /\ \A p \in Procs : JobInv(p) /\ ProcInv(p) /\ PaysInv(p)
    /\ \A tx \in Pending : TxInv(tx)
    /\ IsFiniteSet(Unspent)
    /\ LoneAsset
    /\ OneDust
    /\ TwoDust

-----------------------------------------------------------------------------
\* Secrets of pending transactions are in no message, and of two of them in
\* one only.
SecretsOf(tx) == {n.secret : n \in Values(tx.out)}
Logged == UNION {Values(M[i].notes) : i \in DOMAIN M}

FreshPending ==
    /\ \A tx \in Pending : \A n \in Logged : n.secret \notin SecretsOf(tx)
    /\ \A p, q \in Procs : pending[p] # None /\ pending[q] # None /\ p # q =>
          SecretsOf(pending[p]) \cap SecretsOf(pending[q]) = {}
    /\ \A p \in Procs, t \in orphans : pending[p] # None =>
          SecretsOf(pending[p]) \cap SecretsOf(t) = {}
    /\ \A t, u \in orphans : t # u => SecretsOf(t) \cap SecretsOf(u) = {}

\* What spends notes of a process and is left behind.
Left(p) == {t \in orphans : t.call # "deposit" /\ t.key = Seed[p]}

\* The part that was split off.
IsPart(p, a) == a.pubkey = own(p) /\ a.balance = splitBalance(job[p])

\* What a process can rely on while no other one has its seed.  What it left
\* behind earlier spends notes that collect() has seen; after the split it can
\* only compete with the split itself, and when that is mined it is gone and the
\* part is there.
AloneInv(p) ==
    /\ pending[p] # None => pending[p].call = "deposit" \/ pending[p].key = Seed[p]
    /\ at[p] = "abstractTransfer" => \A t \in Left(p) : Values(t.in) \subseteq assets(p)
    /\ at[p] = "syncData" /\ pending[p] # None =>
          /\ pending[p].call = "transfer"
          /\ pending[p].in[1] = pending[p].in[2]
          /\ job[p].command = "WITHDRAWAL" => IsPart(p, pending[p].out[1])
          /\ \A t \in Left(p) : Values(t.in) \subseteq {pending[p].in[1]}
    /\ at[p] = "syncData" /\ pending[p] = None =>
          /\ Left(p) = {}
          /\ job[p].command = "WITHDRAWAL" => \E a \in Unspent : IsPart(p, a)
    /\ at[p] = "withdrawal" => parts(p) # {}

\* The inductive invariant while every process has a seed of its own.
PartsInv ==
    /\ ClientInv
    /\ FreshPending
    /\ \A t \in orphans : Minable(t, N)
    /\ \A p \in Procs : AloneInv(p)

-----------------------------------------------------------------------------
\* Short sequences.
LEMMA ShortSeq ==
    ASSUME NEW S, NEW s \in Seq(S)
    PROVE  /\ Len(s) = 0 => s = << >> /\ Values(s) = {}
           /\ Len(s) = 1 => s = <<s[1]>> /\ Values(s) = {s[1]} /\ s[1] \in S
           /\ Len(s) = 2 => Values(s) = {s[1], s[2]} /\ s[1] \in S /\ s[2] \in S
<1>1. ASSUME Len(s) = 0 PROVE s = << >> /\ Values(s) = {}
  BY <1>1 DEF Values
<1>2. ASSUME Len(s) = 1 PROVE s = <<s[1]>> /\ Values(s) = {s[1]} /\ s[1] \in S
  <2>1. DOMAIN s = {1} /\ s[1] \in S
    BY <1>2
  <2>2. Values(s) = {s[1]}
    BY <2>1 DEF Values
  <2>3. s = <<s[1]>>
    BY <1>2
  <2>. QED BY <2>1, <2>2, <2>3
<1>3. ASSUME Len(s) = 2 PROVE Values(s) = {s[1], s[2]} /\ s[1] \in S /\ s[2] \in S
  <2>1. DOMAIN s = {1, 2}
    <3>1. DOMAIN s = 1 .. 2
      BY <1>3
    <3>2. 1 .. 2 = {1, 2}
      OBVIOUS
    <3>. QED BY <3>1, <3>2
  <2>3. s[1] \in S /\ s[2] \in S
    <3>1. \A i \in DOMAIN s : s[i] \in S
      OBVIOUS
    <3>. QED BY <2>1, <3>1
  <2>2. Values(s) = {s[1], s[2]}
    BY <2>1 DEF Values
  <2>. QED BY <2>2, <2>3
<1>. QED BY <1>1, <1>2, <1>3

\* The private keys of the processes are private keys, and nobody's else.
LEMMA KeysArePrivate ==
    /\ \A k \in Keys : k \in PrivKeys /\ PubKey(k) # PubKey(Stranger)
    /\ \A p \in Procs : Seed[p] \in Keys /\ Seed[p] \in PrivKeys
BY ClientAssumption, PubKeyInjective DEF Keys

LEMMA FeeType == fee \in Nat /\ fee \in TxFees
BY NumbersAssumption, AccountsAssumption DEF fee

LEMMA OwnNullifier ==
    ASSUME NEW k \in PrivKeys, NEW a, a.pubkey = PubKey(k)
    PROVE  nullifierOf(a) = Compress(k, a.secret)
<1>1. (CHOOSE l \in PrivKeys : PubKey(l) = a.pubkey) = k
  BY PubKeyInjective
<1>. QED BY <1>1 DEF nullifierOf

LEMMA OwnersNullifier ==
    ASSUME NEW k \in PrivKeys, NEW a \in Notes, a.pubkey = PubKey(k)
    PROVE  /\ NullifierOf(a) = {nullifierOf(a)}
           /\ nullifierOf(a) = Compressor(k, a)
BY OneNullifier, OwnNullifier DEF Compressor

\* What a ledger step leaves behind.
LEMMA StepEffect ==
    ASSUME IInv, NEW message, LedgerStep(message)
    PROVE  /\ IInv'
           /\ MESSAGE_NUM' = MESSAGE_NUM + 1
           /\ DOMAIN M' = DOMAIN M \cup {MESSAGE_NUM}
           /\ \A i \in DOMAIN M : M'[i] = M[i]
           /\ M'[MESSAGE_NUM] = message
           /\ Values(message.notes) \subseteq Notes
           /\ U' = U \cup {UTXOHasher(n) : n \in Values(message.notes)}
           /\ U \cap {UTXOHasher(n) : n \in Values(message.notes)} = {}
           /\ N' = N \cup Values(message.nullifiers)
           /\ N \cap Values(message.nullifiers) = {}
<1>1. message \in Messages /\ Announce(message) /\ message.utxos = HashesOf(message.notes)
  BY DEF LedgerStep
<1>2. IInv'
  BY <1>1, StepInv
<1>3. MESSAGE_NUM \in Nat /\ DOMAIN M = 0 .. MESSAGE_NUM - 1
  BY DEF IInv, TypeOK, LogIsLedger
<1>4. Values(message.utxos) = {UTXOHasher(n) : n \in Values(message.notes)}
  BY <1>1 DEF Values, HashesOf
<1>5. Values(message.notes) \subseteq Notes
  BY <1>1 DEF Messages, Values
<1>. QED BY <1>1, <1>2, <1>3, <1>4, <1>5, AnnounceLog DEF LedgerStep

-----------------------------------------------------------------------------
\* What a block with a transaction leaves behind; X is the dummy nullifier.
Effect(tx, X) ==
    /\ IInv'
    /\ MESSAGE_NUM' = MESSAGE_NUM + 1
    /\ DOMAIN M' = DOMAIN M \cup {MESSAGE_NUM}
    /\ \A i \in DOMAIN M : M'[i] = M[i]
    /\ M'[MESSAGE_NUM].notes = tx.out
    /\ Values(tx.in) \cup Values(tx.out) \subseteq Notes
    /\ U' = U \cup {UTXOHasher(n) : n \in Values(tx.out)}
    /\ U \cap {UTXOHasher(n) : n \in Values(tx.out)} = {}
    /\ \A n \in Values(tx.in) : nullifierOf(n) \notin N
    /\ N' = N \cup {nullifierOf(n) : n \in Values(tx.in)} \cup X
    /\ \A x \in X : tx.key \in Keys /\ \E e \in Entropies : x = Compress(tx.key, e)

LEMMA EffectOf ==
    ASSUME IInv, NEW message, LedgerStep(message), NEW tx, NEW X,
           message.notes = tx.out, Values(tx.in) \subseteq Notes,
           Values(message.nullifiers) = {nullifierOf(n) : n \in Values(tx.in)} \cup X,
           \A x \in X : tx.key \in Keys /\ \E e \in Entropies : x = Compress(tx.key, e)
    PROVE  Effect(tx, X)
<1>1. /\ IInv'
      /\ MESSAGE_NUM' = MESSAGE_NUM + 1
      /\ DOMAIN M' = DOMAIN M \cup {MESSAGE_NUM}
      /\ \A i \in DOMAIN M : M'[i] = M[i]
      /\ M'[MESSAGE_NUM] = message
      /\ Values(tx.out) \subseteq Notes
      /\ U' = U \cup {UTXOHasher(n) : n \in Values(tx.out)}
      /\ U \cap {UTXOHasher(n) : n \in Values(tx.out)} = {}
      /\ N' = N \cup Values(message.nullifiers)
      /\ N \cap Values(message.nullifiers) = {}
  <2>1. message.notes = tx.out
    OBVIOUS
  <2>. QED BY ONLY <2>1, IInv, LedgerStep(message), StepEffect
<1>2. \A n \in Values(tx.in) : nullifierOf(n) \notin N
  BY <1>1
<1>3. N' = N \cup {nullifierOf(n) : n \in Values(tx.in)} \cup X
  BY <1>1
<1>4. M'[MESSAGE_NUM].notes = tx.out
  BY <1>1
<1>5. Values(tx.in) \cup Values(tx.out) \subseteq Notes
  BY <1>1
<1>. QED BY <1>1, <1>2, <1>3, <1>4, <1>5 DEF Effect

LEMMA MinedDeposit ==
    ASSUME IInv, NEW tx \in Transactions, IsDeposit(tx), Mined(tx)
    PROVE  Effect(tx, {})
<1>. DEFINE n == tx.out[1]
            payments == <<[amount |-> n.balance, assetId |-> WAVES]>>
            note == [balance |-> payments[1].amount, pubkey |-> n.pubkey, secret |-> Hash253(tx.entropy)]
            message == Message(<< >>, <<note>>)
<1>1. /\ tx.in = << >> /\ Values(tx.in) = {}
      /\ tx.out = <<n>> /\ Values(tx.out) = {n} /\ n \in Drafted
      /\ tx.entropy \in Entropies /\ n.secret = Hash253(tx.entropy)
  <2>1. tx.in \in Seq(Notes) /\ tx.out \in Seq(Drafted)
    BY DEF Transactions
  <2>. QED BY <2>1, ShortSeq DEF IsDeposit
<1>2. deposit(payer, payments, n.pubkey, tx.entropy, fee)
  BY DEF Mined, IsDeposit
<1>3. payments[1].amount = n.balance /\ n.balance \in Nat /\ n.pubkey \in PubKeys
  BY <1>1 DEF Drafted
<1>4. payer \in Accounts /\ TypeOK
  BY ClientAssumption DEF IInv
<1>5. note \in Notes /\ LedgerStep(message)
  <2>. HIDE DEF n, payments
  <2>. QED BY <1>1, <1>2, <1>3, <1>4, FeeType, DepositCall
<1>6. note = n
  BY <1>1 DEF Drafted
<1>7. message.notes = tx.out /\ Values(message.nullifiers) = {}
  BY <1>1, <1>6 DEF Message, Values
<1>8. {nullifierOf(x) : x \in Values(tx.in)} = {} /\ Values(tx.in) \subseteq Notes
  BY <1>1
<1>. HIDE DEF message, n, note
<1>. QED BY <1>5, <1>7, <1>8, EffectOf

LEMMA MinedWithdrawal ==
    ASSUME IInv, NEW tx \in Transactions, IsWithdrawal(tx), Mined(tx),
           \A n \in Values(tx.in) : UTXOHasher(n) \in U
    PROVE  Effect(tx, {})
<1>. DEFINE n == tx.in[1]
            ring == InRing(tx.in)
            message == Message(<<Compressor(tx.key, n)>>, << >>)
<1>1. /\ tx.in = <<n>> /\ Values(tx.in) = {n} /\ n \in Notes
      /\ tx.out = << >> /\ Values(tx.out) = {}
      /\ tx.key \in PrivKeys /\ n.pubkey = PubKey(tx.key)
  <2>1. tx.in \in Seq(Notes) /\ tx.out \in Seq(Drafted)
    BY DEF Transactions
  <2>. QED BY <2>1, ShortSeq, KeysArePrivate DEF IsWithdrawal
<1>2. withdrawal(this, ring, n, tx.key, payer, fee)
  BY DEF Mined, IsWithdrawal
<1>3. UTXOHasher(n) \in InHashes(ring)
  <2>1. 0 \in Slots
    BY NumbersAssumption DEF Slots
  <2>2. ring[0] = n
    BY <2>1 DEF InRing
  <2>. QED BY <2>1, <2>2 DEF InHashes
<1>4. this \in Accounts /\ TypeOK
  BY AccountsAssumption DEF IInv
<1>5. LedgerStep(message)
  <2>. HIDE DEF n, ring
  <2>. QED BY <1>1, <1>2, <1>3, <1>4, FeeType, WithdrawalCall
<1>6. nullifierOf(n) = Compressor(tx.key, n)
  BY <1>1, OwnersNullifier
<1>7. message.notes = tx.out /\ Values(message.nullifiers) = {nullifierOf(n)}
  BY <1>1, <1>6 DEF Message, Values
<1>8. {nullifierOf(x) : x \in Values(tx.in)} = {nullifierOf(n)} /\ Values(tx.in) \subseteq Notes
  BY <1>1
<1>. HIDE DEF message, n
<1>. QED BY <1>5, <1>7, <1>8, EffectOf

LEMMA MinedTransfer ==
    ASSUME IInv, NEW tx \in Transactions, IsTransfer(tx), Mined(tx),
           \A n \in Values(tx.in) : UTXOHasher(n) \in U
    PROVE  \E X : Effect(tx, X)
<1>. DEFINE a == tx.in[1]
            b == tx.in[2]
            ring == InRing(tx.in)
            nullifiers == TransferNullifiers(tx.key, tx.entropy, a, b)
            message == Message(nullifiers, tx.out)
<1>1. /\ Values(tx.in) = {a, b} /\ a \in Notes /\ b \in Notes
      /\ tx.key \in PrivKeys /\ tx.key \in Keys /\ tx.entropy \in Entropies
      /\ a.pubkey = PubKey(tx.key) /\ b.pubkey = PubKey(tx.key)
  <2>1. tx.in \in Seq(Notes) /\ tx.out \in Seq(Drafted)
    BY DEF Transactions
  <2>. QED BY <2>1, ShortSeq, KeysArePrivate DEF IsTransfer
<1>2. transfer(this, ring, a, b, tx.key, tx.entropy, {tx.out}, fee)
  BY DEF Mined, IsTransfer
<1>3. UTXOHasher(a) \in InHashes(ring) /\ UTXOHasher(b) \in InHashes(ring)
  <2>1. 0 \in Slots /\ 1 \in Slots /\ 1 # 0
    BY ClientAssumption, NumbersAssumption DEF Slots
  <2>2. Len(tx.in) = 2
    BY DEF IsTransfer
  <2>3. ring[0] = a /\ ring[1] = b
    BY <2>1, <2>2 DEF InRing
  <2>. QED BY <2>1, <2>3 DEF InHashes
<1>4. this \in Accounts /\ TypeOK
  BY AccountsAssumption DEF IInv
<1>5. LedgerStep(message)
  <2>. HIDE DEF a, b, ring
  <2>. QED BY <1>1, <1>2, <1>3, <1>4, FeeType, TransferCall
<1>6. nullifierOf(a) = Compressor(tx.key, a) /\ nullifierOf(b) = Compressor(tx.key, b)
  BY <1>1, OwnersNullifier
<1>7. message.notes = tx.out /\ Values(message.nullifiers) = {nullifiers[1], nullifiers[2]}
  BY DEF Message, Values, TransferNullifiers
<1>8. /\ nullifiers[1] = nullifierOf(a)
      /\ nullifiers[2] = IF a = b THEN Compress(tx.key, tx.entropy) ELSE nullifierOf(b)
  BY <1>1, <1>6, HasherInjective DEF TransferNullifiers, SameInputs
<1>. DEFINE X == IF a = b THEN {Compress(tx.key, tx.entropy)} ELSE {}
<1>9. {nullifiers[1], nullifiers[2]} = {nullifierOf(n) : n \in Values(tx.in)} \cup X
  BY <1>1, <1>8
<1>10. \A x \in X : tx.key \in Keys /\ \E e \in Entropies : x = Compress(tx.key, e)
  BY <1>1
<1>11. Values(tx.in) \subseteq Notes
  BY <1>1
<1>12. Values(message.nullifiers) = {nullifierOf(n) : n \in Values(tx.in)} \cup X
  BY <1>7, <1>9
<1>. HIDE DEF message, a, b, X, nullifiers
<1>. QED BY <1>5, <1>7, <1>10, <1>11, <1>12, EffectOf

LEMMA MinedEffect ==
    ASSUME IInv, NEW tx \in Transactions, TxInv(tx), Mined(tx)
    PROVE  \E X : Effect(tx, X)
BY MinedDeposit, MinedWithdrawal, MinedTransfer DEF TxInv

-----------------------------------------------------------------------------
\* The assets of a prefix are announced notes of the private key; those of
\* the whole log are the unspent ones.
LEMMA AssetType ==
    ASSUME IInv, NEW k \in PrivKeys, NEW n, NEW a \in PrefixAssets(k, n)
    PROVE  a \in Notes /\ a.pubkey = PubKey(k) /\ UTXOHasher(a) \in U
<1>1. PICK i \in Prefix(n) : a \in decrypted(k, M[i])
  BY DEF PrefixAssets
<1>2. i \in DOMAIN M /\ M[i] \in Messages
  BY <1>1 DEF Prefix, IInv, TypeOK
<1>3. PICK q \in DOMAIN M[i].notes : a = M[i].notes[q]
  BY <1>1 DEF decrypted, Values
<1>4. a \in Notes /\ a.pubkey = PubKey(k)
  BY <1>1, <1>2, <1>3 DEF Messages, decrypted
<1>5. M[i].utxos = HashesOf(M[i].notes)
  BY <1>2 DEF IInv, MessagesMatch
<1>6. UTXOHasher(a) \in Values(M[i].utxos)
  BY <1>3, <1>5 DEF HashesOf, Values
<1>. QED BY <1>2, <1>4, <1>6 DEF IInv, LogIsLedger

LEMMA Announced ==
    ASSUME IInv, NEW a \in Notes, UTXOHasher(a) \in U
    PROVE  \E i \in DOMAIN M : a \in Values(M[i].notes)
<1>1. PICK i \in DOMAIN M : UTXOHasher(a) \in Values(M[i].utxos)
  BY DEF IInv, LogIsLedger
<1>2. M[i].utxos = HashesOf(M[i].notes) /\ M[i] \in Messages
  BY DEF IInv, MessagesMatch, TypeOK
<1>3. PICK q \in DOMAIN M[i].notes : UTXOHasher(a) = UTXOHasher(M[i].notes[q])
  BY <1>1, <1>2 DEF Values, HashesOf
<1>4. M[i].notes[q] \in Notes
  BY <1>2 DEF Messages
<1>. QED BY <1>3, <1>4, HasherInjective DEF Values

LEMMA CurrentAssets ==
    ASSUME IInv, NEW k \in PrivKeys
    PROVE  PrefixAssets(k, MESSAGE_NUM) = {n \in Unspent : n.pubkey = PubKey(k)}
<1>1. MESSAGE_NUM \in Nat /\ DOMAIN M = 0 .. MESSAGE_NUM - 1
  BY DEF IInv, TypeOK, LogIsLedger
<1>2. Prefix(MESSAGE_NUM) = DOMAIN M
  BY <1>1 DEF Prefix
<1>3. PrefixNullifiers(MESSAGE_NUM) = N
  BY <1>2 DEF PrefixNullifiers, IInv, LogIsLedger
<1>4. ASSUME NEW a \in PrefixAssets(k, MESSAGE_NUM)
      PROVE  a \in Unspent /\ a.pubkey = PubKey(k)
  <2>1. a \in Notes /\ a.pubkey = PubKey(k) /\ UTXOHasher(a) \in U
    BY AssetType
  <2>2. nullifierOf(a) \notin N
    BY <1>3 DEF PrefixAssets
  <2>. QED BY <2>1, <2>2, OwnersNullifier DEF Unspent
<1>5. ASSUME NEW a \in Unspent, a.pubkey = PubKey(k)
      PROVE  a \in PrefixAssets(k, MESSAGE_NUM)
  <2>1. a \in Notes /\ UTXOHasher(a) \in U /\ nullifierOf(a) \notin N
    BY <1>5, OwnersNullifier DEF Unspent
  <2>2. PICK i \in DOMAIN M : a \in Values(M[i].notes)
    BY <2>1, Announced
  <2>3. a \in decrypted(k, M[i])
    BY <1>5, <2>2 DEF decrypted
  <2>. QED BY <1>2, <1>3, <2>1, <2>2, <2>3 DEF PrefixAssets
<1>. QED BY <1>4, <1>5

\* An asset of a prefix that is still unspent is one of every longer prefix.
LEMMA LaterAssets ==
    ASSUME IInv, NEW k \in PrivKeys, NEW m \in Nat, NEW n \in Nat, m <= n,
           NEW a \in PrefixAssets(k, m), a \in Unspent
    PROVE  a \in PrefixAssets(k, n)
<1>1. PICK i \in Prefix(m) : a \in decrypted(k, M[i])
  BY DEF PrefixAssets
<1>2. i \in Prefix(n)
  <2>1. i \in DOMAIN M /\ i \in Nat /\ i < m
    BY DEF Prefix, IInv, TypeOK
  <2>. QED BY <2>1 DEF Prefix
<1>3. nullifierOf(a) \notin N
  BY AssetType, OwnersNullifier DEF Unspent
<1>4. PrefixNullifiers(n) \subseteq N
  BY DEF PrefixNullifiers, Prefix, IInv, LogIsLedger
<1>. QED BY <1>1, <1>2, <1>3, <1>4 DEF PrefixAssets

\* A message more does not change a prefix.
LEMMA PrefixKept ==
    ASSUME IInv, NEW tx, NEW X, Effect(tx, X), NEW k, NEW n \in Nat, n <= MESSAGE_NUM
    PROVE  PrefixAssets(k, n)' = PrefixAssets(k, n)
<1>1. MESSAGE_NUM \in Nat /\ DOMAIN M = 0 .. MESSAGE_NUM - 1
  BY DEF IInv, TypeOK, LogIsLedger
<1>2. DOMAIN M' = DOMAIN M \cup {MESSAGE_NUM} /\ \A i \in DOMAIN M : M'[i] = M[i]
  BY DEF Effect
<1>3. Prefix(n)' = Prefix(n) /\ \A i \in Prefix(n) : M'[i] = M[i]
  BY <1>1, <1>2 DEF Prefix
<1>4. {Values(M'[i].nullifiers) : i \in Prefix(n)} = {Values(M[i].nullifiers) : i \in Prefix(n)}
  BY <1>3
<1>5. {decrypted(k, M'[i]) : i \in Prefix(n)} = {decrypted(k, M[i]) : i \in Prefix(n)}
  BY <1>3
<1>6. UNION {decrypted(k, M'[i]) : i \in Prefix(n)} = UNION {decrypted(k, M[i]) : i \in Prefix(n)}
  BY <1>5
<1>7. PrefixNullifiers(n)' = PrefixNullifiers(n)
  BY <1>3, <1>4 DEF PrefixNullifiers
<1>. QED BY <1>3, <1>6, <1>7 DEF PrefixAssets, decrypted

\* Unspent afterwards is what was not spent, and the notes made.
LEMMA UnspentThen ==
    ASSUME IInv, NEW tx, NEW X, Effect(tx, X)
    PROVE  Unspent' \subseteq (Unspent \ Values(tx.in)) \cup Values(tx.out)
<1>. DEFINE new == Values(tx.out)
            Y == {nullifierOf(n) : n \in Values(tx.in)} \cup X
<1>1. new \in SUBSET Notes /\ Values(tx.in) \subseteq Notes
  BY DEF Effect
<1>2. U' = U \cup {UTXOHasher(n) : n \in new} /\ N' = N \cup Y
  BY DEF Effect
<1>3. Unspent' \subseteq {n \in Unspent : NullifierOf(n) \cap Y = {}} \cup new
  <2>. HIDE DEF new, Y
  <2>. QED BY <1>1, <1>2, UnspentAfter
<1>4. \A n \in Values(tx.in) : NullifierOf(n) \cap Y # {}
  <2>1. TAKE n \in Values(tx.in)
  <2>2. PICK k \in PrivKeys : n.pubkey = PubKey(k)
    BY <1>1, NoteType DEF PubKeys
  <2>3. NullifierOf(n) = {nullifierOf(n)}
    BY <1>1, <2>2, OwnersNullifier
  <2>. QED BY <2>3
<1>. QED BY <1>3, <1>4

-----------------------------------------------------------------------------
\* A pending transaction stays what it is when another one is mined.
LEMMA TxStays ==
    ASSUME IInv, NEW tx, NEW X, Effect(tx, X), NEW t, TxInv(t)
    PROVE  TxInv(t)'
<1>1. MESSAGE_NUM \in Nat /\ MESSAGE_NUM' = MESSAGE_NUM + 1 /\ U \subseteq U'
  BY DEF Effect, IInv, TypeOK
<1>2. \A n \in Values(t.in) : UTXOHasher(n) \in U'
  BY <1>1 DEF TxInv
<1>3. Splits(t) => Splits(t)'
  <2>. SUFFICES ASSUME Splits(t) PROVE Splits(t)'
    OBVIOUS
  <2>1. PICK m \in Nat : m <= MESSAGE_NUM /\ PrefixAssets(t.key, m) = {t.in[1]}
    BY DEF Splits
  <2>2. m <= MESSAGE_NUM' /\ PrefixAssets(t.key, m)' = {t.in[1]}
    BY <1>1, <2>1, PrefixKept
  <2>3. HalfOf(t.out[1], t.key)' = HalfOf(t.out[1], t.key)
    BY DEF HalfOf
  <2>. QED BY <2>2, <2>3 DEF Splits
<1>4. Merges(t) => Merges(t)'
  BY DEF Merges
<1>5. IsDeposit(t)' = IsDeposit(t) /\ IsWithdrawal(t)' = IsWithdrawal(t) /\ IsTransfer(t)' = IsTransfer(t)
  OBVIOUS
<1>. QED BY <1>2, <1>3, <1>4, <1>5 DEF TxInv, Values

\* What a mined transaction spends was unspent, and is not any more.
LEMMA InputsUnspent ==
    ASSUME IInv, NEW tx \in Transactions, TxInv(tx), NEW X, Effect(tx, X), NEW n \in Values(tx.in)
    PROVE  n \in Unspent /\ n \notin Unspent'
<1>1. n \in Notes /\ UTXOHasher(n) \in U /\ nullifierOf(n) \notin N /\ nullifierOf(n) \in N'
  BY DEF Effect, TxInv
<1>2. NullifierOf(n) = {nullifierOf(n)}
  BY <1>1, NoteType, OwnersNullifier DEF PubKeys
<1>3. NullifierOf(n)' = NullifierOf(n)
  BY DEF NullifierOf
<1>. QED BY <1>1, <1>2, <1>3 DEF Unspent

\* The dust that a transaction makes is the change of a transfer, that of a
\* split from a wallet without dust or of a merger that spends dust, or the part
\* that a negative withdrawal splits off.
LEMMA NewDust ==
    ASSUME NEW tx \in Transactions, TxInv(tx), NEW k \in Keys, NEW d \in Values(tx.out),
           d.pubkey = PubKey(k), d.balance < fee
    PROVE  /\ IsTransfer(tx) /\ tx.key = k
           /\ Values(tx.in) = {tx.in[1], tx.in[2]}
           /\ Values(tx.out) = {tx.out[1], tx.out[2]}
           /\ \/ Splits(tx)
              \/ /\ Merges(tx) /\ d = tx.out[2]
                 /\ tx.in[1].balance < fee \/ tx.in[2].balance < fee
<1>1. tx.in \in Seq(Notes) /\ tx.out \in Seq(Drafted) /\ fee \in Int
  BY FeeType DEF Transactions
<1>2. ~IsWithdrawal(tx)
  BY <1>1, ShortSeq DEF IsWithdrawal
<1>3. ~(IsDeposit(tx) /\ tx.out[1].balance >= fee)
  <2>. SUFFICES ASSUME IsDeposit(tx) PROVE ~(tx.out[1].balance >= fee)
    OBVIOUS
  <2>1. d = tx.out[1] /\ d \in Drafted
    BY <1>1, ShortSeq DEF IsDeposit
  <2>2. d.balance \in Int
    BY <2>1 DEF Drafted
  <2>. QED BY <1>1, <2>1, <2>2
<1>4. IsTransfer(tx) /\ tx.out[2].pubkey = PubKey(tx.key) /\ (Splits(tx) \/ Merges(tx))
  BY <1>2, <1>3 DEF TxInv
<1>5. /\ Values(tx.in) = {tx.in[1], tx.in[2]} /\ tx.in[1] \in Notes /\ tx.in[2] \in Notes
      /\ Values(tx.out) = {tx.out[1], tx.out[2]} /\ tx.out[1] \in Drafted
  <2>1. Len(tx.in) = 2 /\ Len(tx.out) = 2
    BY <1>4 DEF IsTransfer
  <2>. QED BY <1>1, <2>1, ShortSeq
<1>6. CASE d = tx.out[2]
  <2>1. tx.key = k
    BY <1>4, <1>6, KeysArePrivate, PubKeyInjective DEF IsTransfer
  <2>2. Merges(tx) => tx.in[1].balance < fee \/ tx.in[2].balance < fee
    <3>1. tx.in[1].balance \in Int /\ tx.in[2].balance \in Int
      BY <1>5, NoteType
    <3>. QED BY <1>1, <1>6, <3>1 DEF Merges
  <2>. QED BY <1>4, <1>5, <1>6, <2>1, <2>2
<1>7. CASE d = tx.out[1]
  <2>1. ~Merges(tx)
    BY <1>7, KeysArePrivate DEF Merges
  <2>2. tx.out[1].balance \in Int
    BY <1>5 DEF Drafted
  <2>3. HalfOf(tx.out[1], tx.key)
    BY <1>1, <1>4, <1>7, <2>1, <2>2 DEF Splits
  <2>4. tx.key = k
    BY <1>4, <1>7, <2>3, KeysArePrivate, PubKeyInjective DEF IsTransfer, HalfOf
  <2>. QED BY <1>4, <1>5, <2>1, <2>4
<1>. QED BY <1>5, <1>6, <1>7

\* Dust after a transaction is dust of before that it does not spend, or new.
LEMMA DustThen ==
    ASSUME IInv, NEW tx \in Transactions, TxInv(tx), NEW X, Effect(tx, X), NEW k,
           NEW d \in DustOf(k)'
    PROVE  /\ d.pubkey = PubKey(k) /\ d.balance < fee
           /\ d \in Values(tx.out) \/ (d \in DustOf(k) /\ d \notin Values(tx.in))
<1>1. d \in Unspent' /\ d.pubkey = PubKey(k) /\ d.balance < fee
  BY DEF DustOf, fee
<1>2. d \in (Unspent \ Values(tx.in)) \cup Values(tx.out)
  BY <1>1, UnspentThen
<1>. QED BY <1>1, <1>2 DEF DustOf

\* What the log shows once it shows for ever.
LEMMA HalvedKept ==
    ASSUME DOMAIN M \subseteq DOMAIN M', \A i \in DOMAIN M : M'[i] = M[i], NEW k, Halved(k)
    PROVE  Halved(k)'
BY DEF Halved

LEMMA HalvedSame == UNCHANGED vars => \A k : Halved(k) => Halved(k)'
<1>. SUFFICES ASSUME UNCHANGED vars, NEW k, Halved(k) PROVE Halved(k)'
  OBVIOUS
<1>1. M' = M
  BY DEF vars
<1>. QED BY <1>1, HalvedKept

\* A split that makes two notes below the fee is that of a negative withdrawal.
LEMMA SplitHalves ==
    ASSUME NEW tx \in Transactions, IsTransfer(tx), Splits(tx), NEW X, Effect(tx, X), NEW k,
           tx.key = k, tx.out[1].pubkey = PubKey(k), tx.out[2].pubkey = PubKey(k),
           tx.out[1].balance < fee, tx.out[2].balance < fee
    PROVE  Halved(k)'
<1>1. tx.out \in Seq(Drafted) /\ Len(tx.out) = 2
  BY DEF Transactions, IsTransfer
<1>2. tx.out[1].balance \in Int
  <2>1. tx.out[1] \in Drafted
    BY <1>1, ShortSeq
  <2>. QED BY <2>1 DEF Drafted
<1>3. HalfOf(tx.out[1], k)
  BY <1>2, FeeType DEF Splits
<1>4. PICK r \in Requests :
         r.command = "WITHDRAWAL" /\ r.balance < 0 /\ tx.out[1].balance = r.balance + fee
  BY <1>3 DEF HalfOf
<1>5. MESSAGE_NUM \in DOMAIN M' /\ M'[MESSAGE_NUM].notes = tx.out
  BY DEF Effect
<1>6. PICK i \in DOMAIN M' : M'[i].notes = tx.out
  BY <1>5
<1>7. \A q \in 1 .. 2 : M'[i].notes[q].pubkey = PubKey(k) /\ M'[i].notes[q].balance < fee
  <2>1. \A q \in 1 .. 2 : q = 1 \/ q = 2
    OBVIOUS
  <2>. QED BY <1>6, <2>1
<1>8. Len(M'[i].notes) = 2 /\ M'[i].notes[1].balance = r.balance + fee
  BY <1>1, <1>4, <1>6
<1>. QED BY <1>4, <1>7, <1>8 DEF Halved, fee

LEMMA OneDustThen ==
    ASSUME IInv, NEW tx \in Transactions, TxInv(tx), NEW X, Effect(tx, X), LoneAsset, OneDust
    PROVE  OneDust'
<1>. SUFFICES ASSUME NEW k \in Keys, ~Halved(k)', NEW c \in DustOf(k)', NEW d \in DustOf(k)'
              PROVE  c = d
  BY DEF OneDust
<1>0. \A m, n \in DustOf(k) : m = n
  <2>1. DOMAIN M \subseteq DOMAIN M' /\ \A i \in DOMAIN M : M'[i] = M[i]
    BY DEF Effect
  <2>2. ~Halved(k)
    BY <2>1, HalvedKept
  <2>. QED BY <2>2 DEF OneDust
<1>1. \A x \in {c, d} : /\ x.pubkey = PubKey(k) /\ x.balance < fee
                        /\ x \in Values(tx.out) \/ (x \in DustOf(k) /\ x \notin Values(tx.in))
  BY DustThen
<1>2. \A x \in {c, d} : x \in Values(tx.out) =>
         /\ IsTransfer(tx) /\ tx.key = k
         /\ Values(tx.in) = {tx.in[1], tx.in[2]}
         /\ Values(tx.out) = {tx.out[1], tx.out[2]}
         /\ \/ Splits(tx)
            \/ Merges(tx) /\ x = tx.out[2] /\ (tx.in[1].balance < fee \/ tx.in[2].balance < fee)
  BY <1>1, NewDust
<1>3. CASE c \in Values(tx.out) /\ d \in Values(tx.out)
  <2>1. CASE Splits(tx)
    <3>1. SUFFICES ASSUME c # d PROVE FALSE
      OBVIOUS
    <3>2. {c, d} = {tx.out[1], tx.out[2]}
      BY <1>2, <1>3, <3>1
    <3>3. \A q \in {tx.out[1], tx.out[2]} : q.pubkey = PubKey(k) /\ q.balance < fee
      BY <1>1, <3>2
    <3>4. IsTransfer(tx) /\ tx.key = k
      BY <1>2, <1>3
    <3>. QED BY <2>1, <3>3, <3>4, SplitHalves
  <2>2. CASE ~Splits(tx)
    BY <1>2, <1>3, <2>2
  <2>. QED BY <2>1, <2>2
<1>4. CASE c \notin Values(tx.out) /\ d \notin Values(tx.out)
  BY <1>0, <1>1, <1>4
<1>5. ASSUME NEW x \in {c, d}, x \in Values(tx.out), NEW y \in {c, d}, y \notin Values(tx.out)
      PROVE  FALSE
  <2>1. y \in DustOf(k) /\ y \notin Values(tx.in)
    BY <1>1, <1>5
  <2>2. /\ IsTransfer(tx) /\ tx.key = k /\ Values(tx.in) = {tx.in[1], tx.in[2]}
        /\ Splits(tx) \/ (Merges(tx) /\ (tx.in[1].balance < fee \/ tx.in[2].balance < fee))
    BY <1>2, <1>5
  <2>3. tx.in[1] \in Unspent /\ tx.in[2] \in Unspent
    BY <2>2, InputsUnspent
  <2>4. CASE Splits(tx)
    BY <2>1, <2>2, <2>3, <2>4 DEF Splits, LoneAsset
  <2>5. CASE tx.in[1].balance < fee \/ tx.in[2].balance < fee
    <3>1. tx.in[1].pubkey = PubKey(k) /\ tx.in[2].pubkey = PubKey(k)
      BY <2>2 DEF IsTransfer
    <3>2. tx.in[1] \in DustOf(k) \/ tx.in[2] \in DustOf(k)
      BY <2>3, <2>5, <3>1 DEF DustOf
    <3>. QED BY <1>0, <2>1, <2>2, <3>2
  <2>. QED BY <2>2, <2>4, <2>5
<1>. QED BY <1>3, <1>4, <1>5

\* The split of a negative withdrawal starts from a wallet without dust, and a
\* merger makes one note below the fee from another one.
LEMMA TwoDustThen ==
    ASSUME IInv, NEW tx \in Transactions, TxInv(tx), NEW X, Effect(tx, X), LoneAsset, TwoDust
    PROVE  TwoDust'
<1>. SUFFICES ASSUME NEW k \in Keys, NEW a \in DustOf(k)', NEW b \in DustOf(k)', NEW c \in DustOf(k)',
                     a # b, b # c, a # c
              PROVE  FALSE
  BY DEF TwoDust
<1>1. \A x \in {a, b, c} : /\ x.pubkey = PubKey(k) /\ x.balance < fee
                           /\ x \in Values(tx.out) \/ (x \in DustOf(k) /\ x \notin Values(tx.in))
  BY DustThen
<1>2. \A x \in {a, b, c} : x \in Values(tx.out) =>
         /\ IsTransfer(tx) /\ tx.key = k
         /\ Values(tx.in) = {tx.in[1], tx.in[2]}
         /\ Values(tx.out) = {tx.out[1], tx.out[2]}
         /\ \/ Splits(tx)
            \/ Merges(tx) /\ x = tx.out[2] /\ (tx.in[1].balance < fee \/ tx.in[2].balance < fee)
  BY <1>1, NewDust
<1>3. ASSUME NEW x \in {a, b, c}, x \in Values(tx.out),
             NEW y \in {a, b, c}, NEW z \in {a, b, c}, x # y, y # z, x # z
      PROVE  FALSE
  <2>1. /\ IsTransfer(tx) /\ tx.key = k /\ Values(tx.in) = {tx.in[1], tx.in[2]}
        /\ Values(tx.out) = {tx.out[1], tx.out[2]}
        /\ Splits(tx) \/ (Merges(tx) /\ (tx.in[1].balance < fee \/ tx.in[2].balance < fee))
    BY <1>2, <1>3
  <2>2. tx.in[1] \in Unspent /\ tx.in[2] \in Unspent
    BY <2>1, InputsUnspent
  <2>3. CASE Splits(tx)
    <3>1. DustOf(k) = {}
      BY <2>1, <2>2, <2>3 DEF Splits, LoneAsset
    <3>2. y \in {tx.out[1], tx.out[2]} /\ z \in {tx.out[1], tx.out[2]} /\ x \in {tx.out[1], tx.out[2]}
      BY <1>1, <1>3, <2>1, <3>1
    <3>. QED BY <1>3, <3>2
  <2>4. CASE ~Splits(tx)
    <3>1. x = tx.out[2] /\ y \notin Values(tx.out) /\ z \notin Values(tx.out)
      BY <1>2, <1>3, <2>4
    <3>2. y \in DustOf(k) /\ y \notin Values(tx.in) /\ z \in DustOf(k) /\ z \notin Values(tx.in)
      BY <1>1, <3>1
    <3>3. tx.in[1].pubkey = PubKey(k) /\ tx.in[2].pubkey = PubKey(k)
      BY <2>1 DEF IsTransfer
    <3>4. PICK w \in Values(tx.in) : w \in DustOf(k)
      BY <2>1, <2>2, <2>4, <3>3 DEF DustOf
    <3>5. w # y /\ w # z
      BY <3>2, <3>4
    <3>. QED BY <1>3, <3>2, <3>4, <3>5 DEF TwoDust
  <2>. QED BY <2>3, <2>4
<1>4. a \notin Values(tx.out) /\ b \notin Values(tx.out) /\ c \notin Values(tx.out)
  BY <1>3
<1>5. a \in DustOf(k) /\ b \in DustOf(k) /\ c \in DustOf(k)
  BY <1>1, <1>4
<1>. QED BY <1>5 DEF TwoDust

\* The same after the call.
LEMMA CurrentAssetsNow ==
    IInv => \A k \in PrivKeys : PrefixAssets(k, MESSAGE_NUM) = {n \in Unspent : n.pubkey = PubKey(k)}
BY CurrentAssets

LEMMA CurrentAssetsThen ==
    IInv' => (\A k \in PrivKeys : PrefixAssets(k, MESSAGE_NUM) = {n \in Unspent : n.pubkey = PubKey(k)})'
BY CurrentAssetsNow, PTL

LEMMA LoneAssetThen ==
    ASSUME IInv, NEW tx \in Transactions, TxInv(tx), NEW X, Effect(tx, X), LoneAsset
    PROVE  LoneAsset'
<1>1. MESSAGE_NUM \in Nat /\ MESSAGE_NUM' = MESSAGE_NUM + 1 /\ N \subseteq N' /\ IInv'
  BY DEF Effect, IInv, TypeOK
<1>. SUFFICES ASSUME NEW k \in Keys, NEW n \in Nat, NEW x \in Unspent', n <= MESSAGE_NUM',
                     PrefixAssets(k, n)' = {x}, x.balance >= fee,
                     NEW d \in DustOf(k)'
              PROVE  FALSE
  BY DEF LoneAsset, fee
<1>2. k \in PrivKeys
  BY KeysArePrivate
<1>3. /\ d.pubkey = PubKey(k) /\ d.balance < fee
      /\ d \in Values(tx.out) \/ (d \in DustOf(k) /\ d \notin Values(tx.in))
  BY DustThen
<1>4. CASE n = MESSAGE_NUM'
  <2>1. \A l \in PrivKeys : PrefixAssets(l, MESSAGE_NUM)' = {a \in Unspent' : a.pubkey = PubKey(l)}
    BY <1>1, CurrentAssetsThen
  <2>2. PrefixAssets(k, MESSAGE_NUM)' = PrefixAssets(k, n)'
    BY <1>4 DEF PrefixAssets, Prefix, PrefixNullifiers
  <2>3. d \in Unspent'
    BY DEF DustOf
  <2>4. d = x
    BY <1>2, <1>3, <2>1, <2>2, <2>3
  <2>5. x.balance \in Int /\ fee \in Int
    <3>1. x \in Notes
      BY DEF Unspent
    <3>. QED BY <3>1, NoteType, NumbersAssumption DEF fee
  <2>. QED BY <1>3, <2>4, <2>5
<1>5. CASE n <= MESSAGE_NUM
  <2>1. PrefixAssets(k, n) = {x}
    BY <1>5, PrefixKept
  <2>2. x \in Unspent
    <3>1. x \in Notes /\ UTXOHasher(x) \in U
      BY <1>2, <2>1, AssetType
    <3>2. NullifierOf(x) \cap N' = {}
      BY DEF Unspent, NullifierOf
    <3>. QED BY <1>1, <3>1, <3>2 DEF Unspent
  <2>3. DustOf(k) = {}
    BY <1>5, <2>1, <2>2 DEF LoneAsset
  <2>4. /\ IsTransfer(tx) /\ tx.key = k
        /\ Values(tx.in) = {tx.in[1], tx.in[2]}
        /\ Splits(tx) \/ (Merges(tx) /\ (tx.in[1].balance < fee \/ tx.in[2].balance < fee))
    BY <1>3, <2>3, NewDust
  <2>5. tx.in[1] \in Unspent /\ tx.in[2] \in Unspent /\ tx.in[1] \notin Unspent'
    BY <2>4, InputsUnspent
  <2>6. CASE Splits(tx)
    <3>1. PICK m \in Nat : m <= MESSAGE_NUM /\ PrefixAssets(k, m) = {tx.in[1]}
      BY <2>4, <2>6 DEF Splits
    <3>2. tx.in[1] # x
      BY <2>5
    <3>3. CASE m <= n
      BY <1>2, <2>1, <2>5, <3>1, <3>2, <3>3, LaterAssets
    <3>4. CASE n <= m
      BY <1>2, <2>1, <2>2, <3>1, <3>2, <3>4, LaterAssets
    <3>. QED BY <3>1, <3>3, <3>4
  <2>7. CASE tx.in[1].balance < fee \/ tx.in[2].balance < fee
    <3>1. tx.in[1].pubkey = PubKey(k) /\ tx.in[2].pubkey = PubKey(k)
      BY <2>4 DEF IsTransfer
    <3>. QED BY <2>3, <2>5, <2>7, <3>1 DEF DustOf
  <2>. QED BY <2>4, <2>6, <2>7
<1>. QED BY <1>1, <1>4, <1>5

-----------------------------------------------------------------------------
\* Random numbers that nobody has seen.
\* The first, second and third of them.
LEMMA Ranks ==
    ASSUME NEW S \in SUBSET Nat, IsFiniteSet(S), NEW i \in 1 .. 3, Cardinality(S) >= i
    PROVE  \E e \in S : Cardinality({d \in S : d < e}) = i - 1
<1>0. \A d \in S : d \in Int
  OBVIOUS
<1>1. Cardinality(S) \in Nat /\ S # {}
  BY FS_CardinalityType, FS_EmptySet
<1>2. PICK e \in S : \A d \in S : e <= d
  BY <1>1, SmallestNumber
<1>3. CASE i = 1
  <2>0. \A d \in S : ~(d < e)
    BY <1>0, <1>2
  <2>1. {d \in S : d < e} = {}
    BY <2>0
  <2>. QED BY <1>3, <2>1, FS_EmptySet
<1>. DEFINE R == S \ {e}
<1>4. R \in SUBSET Nat /\ IsFiniteSet(R) /\ Cardinality(R) = Cardinality(S) - 1
  BY FS_RemoveElement
<1>5. ASSUME i # 1
      PROVE  \E f \in R : \A d \in R : f <= d
  <2>1. R # {}
    BY <1>1, <1>4, <1>5, FS_EmptySet
  <2>. HIDE DEF R
  <2>. QED BY <1>4, <2>1, SmallestNumber
<1>6. CASE i = 2
  <2>1. PICK f \in R : \A d \in R : f <= d
    BY <1>5, <1>6
  <2>2. e < f
    BY <1>0, <1>2, <2>1
  <2>3. \A d \in S : d < f <=> d = e
    BY <1>0, <2>1, <2>2
  <2>4. {d \in S : d < f} = {e}
    BY <2>3
  <2>. QED BY <1>6, <2>1, <2>4, FS_Singleton
<1>7. CASE i = 3
  <2>1. PICK f \in R : \A d \in R : f <= d
    BY <1>5, <1>7
  <2>. DEFINE Q == R \ {f}
  <2>2. Q \in SUBSET Nat /\ IsFiniteSet(Q) /\ Cardinality(Q) = Cardinality(R) - 1
    <3>. HIDE DEF R
    <3>. QED BY <1>4, <2>1, FS_RemoveElement
  <2>3. Q # {}
    BY <1>1, <1>4, <1>7, <2>2, FS_EmptySet
  <2>4. PICK g \in Q : \A d \in Q : g <= d
    <3>. HIDE DEF Q
    <3>. QED BY <2>2, <2>3, SmallestNumber
  <2>5. e < f /\ f < g
    BY <1>0, <1>2, <2>1, <2>4
  <2>6. \A d \in S : d < g <=> d = e \/ d = f
    BY <1>0, <2>1, <2>4, <2>5
  <2>7. {d \in S : d < g} = {e} \cup {f}
    BY <2>1, <2>6
  <2>8. IsFiniteSet({e}) /\ Cardinality({e}) = 1 /\ f \notin {e}
    BY <2>1, FS_Singleton
  <2>9. Cardinality({e} \cup {f}) = 1 + 1
    BY <2>8, FS_AddElement
  <2>10. g \in S
    BY <2>4
  <2>11. Cardinality({d \in S : d < g}) = i - 1
    BY <1>7, <2>7, <2>9
  <2>. QED BY <2>10, <2>11
<1>. QED BY <1>3, <1>6, <1>7

LEMMA DrawnType ==
    ASSUME NEW n \in 1 .. 3, CanDraw(n), NEW i \in 1 .. n
    PROVE  Drawn(i) \in Unseen /\ Cardinality({d \in Unseen : d < Drawn(i)}) = i - 1
<1>1. Unseen \in SUBSET Nat /\ IsFiniteSet(Unseen)
  <2>1. Unseen \in SUBSET Entropies
    BY DEF Unseen
  <2>. QED BY <2>1, FS_Subset, ClientAssumption
<1>2. Cardinality(Unseen) >= i /\ i \in 1 .. 3
  BY <1>1, FS_CardinalityType DEF CanDraw
<1>3. \E e \in Unseen : Cardinality({d \in Unseen : d < e}) = i - 1
  BY <1>1, <1>2, Ranks
<1>. QED BY <1>3 DEF Drawn

LEMMA DrawnApart ==
    ASSUME NEW n \in 1 .. 3, CanDraw(n), NEW i \in 1 .. n, NEW j \in 1 .. n, i # j
    PROVE  Drawn(i) # Drawn(j)
BY DrawnType

LEMMA UtxoType ==
    ASSUME NEW n \in 1 .. 3, CanDraw(n), NEW i \in 1 .. n, NEW balance \in Nat, NEW pubkey \in PubKeys
    PROVE  /\ utxoCompute(balance, pubkey, i) \in Drafted
           /\ Drawn(i) \in Entropies /\ Drawn(i) \in Nat
<1>1. Drawn(i) \in Entropies
  BY DrawnType DEF Unseen
<1>. QED BY <1>1, ClientAssumption DEF utxoCompute, Drafted, Secrets

\* What a command broadcasts.
LEMMA DepositTx ==
    ASSUME CanDraw(1), NEW balance \in Nat, balance >= fee, NEW pubkey \in PubKeys
    PROVE  /\ depositTx(balance, pubkey) \in Transactions
           /\ TxInv(depositTx(balance, pubkey))
           /\ depositTx(balance, pubkey).call = "deposit"
<1>. DEFINE tx == depositTx(balance, pubkey)
            utxo == utxoCompute(balance, pubkey, 1)
<1>1. utxo \in Drafted /\ Drawn(1) \in Entropies /\ Drawn(1) \in Nat
  BY UtxoType
<1>2. utxo.balance = balance /\ utxo.secret = Hash253(Drawn(1))
  BY DEF utxoCompute
<1>3. /\ tx.call = "deposit" /\ tx.in = << >> /\ tx.out = <<utxo>> /\ tx.key = None
      /\ tx.entropy = Drawn(1)
      /\ tx = [call |-> "deposit", in |-> << >>, out |-> <<utxo>>, key |-> None, entropy |-> Drawn(1)]
  BY DEF depositTx
<1>. HIDE DEF utxo, tx
<1>4. tx \in Transactions
  BY <1>1, <1>3 DEF Transactions
<1>5. TxInv(tx)
  BY <1>1, <1>2, <1>3 DEF TxInv, IsDeposit, Values
<1>. QED BY <1>3, <1>4, <1>5 DEF tx

LEMMA WithdrawalTx ==
    ASSUME NEW p \in Procs, NEW a \in Notes, a.pubkey = own(p), UTXOHasher(a) \in U
    PROVE  /\ withdrawalTx(p, a) \in Transactions
           /\ TxInv(withdrawalTx(p, a))
           /\ withdrawalTx(p, a).call = "withdrawal" /\ withdrawalTx(p, a).in[1] = a
<1>. DEFINE tx == withdrawalTx(p, a)
<1>1. Seed[p] \in Keys /\ Seed[p] \in PrivKeys /\ own(p) = PubKey(Seed[p])
  BY KeysArePrivate DEF own
<1>2. /\ tx.call = "withdrawal" /\ tx.in = <<a>> /\ tx.out = << >> /\ tx.key = Seed[p]
      /\ tx = [call |-> "withdrawal", in |-> <<a>>, out |-> << >>, key |-> Seed[p], entropy |-> 0]
  BY DEF withdrawalTx
<1>. HIDE DEF tx
<1>3. tx \in Transactions
  BY <1>1, <1>2 DEF Transactions
<1>4. IsWithdrawal(tx)
  BY <1>1, <1>2 DEF IsWithdrawal
<1>5. TxInv(tx)
  BY <1>2, <1>4 DEF TxInv, Values
<1>. QED BY <1>2, <1>3, <1>5 DEF tx

\* A transfer of the assets a and b (or of a alone) to a balance and a pubkey,
\* with the change.
Transferred(p, a, b, x, pubkey, change) ==
    [call |-> "transfer", in |-> <<a, b>>,
     out |-> <<utxoCompute(x, pubkey, 1), utxoCompute(change, own(p), 2)>>,
     key |-> Seed[p], entropy |-> Drawn(3)]

LEMMA TransferredTx ==
    ASSUME CanDraw(3), NEW p \in Procs, NEW a \in Notes, a.pubkey = own(p), UTXOHasher(a) \in U,
           NEW b \in Notes, b.pubkey = own(p), UTXOHasher(b) \in U,
           NEW x \in Nat, NEW pubkey \in PubKeys, NEW change \in Nat
    PROVE  LET tx == Transferred(p, a, b, x, pubkey, change)
           IN  /\ tx \in Transactions /\ IsTransfer(tx)
               /\ \A n \in Values(tx.in) : UTXOHasher(n) \in U
               /\ tx.call = "transfer" /\ tx.key = Seed[p]
               /\ tx.in[1] = a /\ tx.in[2] = b
               /\ tx.out[1] = utxoCompute(x, pubkey, 1)
               /\ tx.out[2] = utxoCompute(change, own(p), 2)
               /\ tx.out[1].balance = x /\ tx.out[1].pubkey = pubkey
               /\ tx.out[2].balance = change /\ tx.out[2].pubkey = own(p)
<1>. DEFINE tx == Transferred(p, a, b, x, pubkey, change)
            one == utxoCompute(x, pubkey, 1)
            two == utxoCompute(change, own(p), 2)
<1>1. Seed[p] \in Keys /\ Seed[p] \in PrivKeys /\ own(p) = PubKey(Seed[p]) /\ own(p) \in PubKeys
  BY KeysArePrivate DEF own, PubKeys
<1>2. /\ one \in Drafted /\ two \in Drafted
      /\ Drawn(3) \in Entropies /\ Drawn(3) \in Nat
  BY <1>1, UtxoType
<1>3. /\ one.balance = x /\ one.pubkey = pubkey
      /\ two.balance = change /\ two.pubkey = own(p)
  BY DEF utxoCompute
<1>4. /\ tx.call = "transfer" /\ tx.in = <<a, b>> /\ tx.out = <<one, two>> /\ tx.key = Seed[p]
      /\ tx.entropy = Drawn(3)
      /\ tx = [call |-> "transfer", in |-> <<a, b>>, out |-> <<one, two>>, key |-> Seed[p],
               entropy |-> Drawn(3)]
  BY DEF Transferred
<1>. HIDE DEF one, two, tx
<1>5. tx \in Transactions
  <2>1. <<a, b>> \in Seq(Notes) /\ <<one, two>> \in Seq(Drafted)
    BY <1>2
  <2>. QED BY <1>1, <1>2, <1>4, <2>1 DEF Transactions
<1>6. IsTransfer(tx)
  BY <1>1, <1>2, <1>4 DEF IsTransfer
<1>7. \A n \in Values(tx.in) : UTXOHasher(n) \in U
  <2>1. Values(tx.in) \subseteq {a, b}
    BY <1>4 DEF Values
  <2>. QED BY <2>1
<1>8. /\ tx.call = "transfer" /\ tx.key = Seed[p] /\ tx.in[1] = a /\ tx.in[2] = b
      /\ tx.out[1] = one /\ tx.out[2] = two
  BY <1>4
<1>. QED BY <1>3, <1>5, <1>6, <1>7, <1>8 DEF one, two, tx

LEMMA MergerIs ==
    ASSUME NEW p, NEW a, NEW b, NEW x, NEW pubkey, NEW change
    PROVE  transferTx(p, <<a, b>>, << [balance |-> x, pubkey |-> pubkey],
                                     [balance |-> change, pubkey |-> own(p)] >>)
             = Transferred(p, a, b, x, pubkey, change)
<1>. DEFINE out == << [balance |-> x, pubkey |-> pubkey], [balance |-> change, pubkey |-> own(p)] >>
<1>1. [i \in 1 .. 2 |-> utxoCompute(out[i].balance, out[i].pubkey, i)]
        = <<utxoCompute(x, pubkey, 1), utxoCompute(change, own(p), 2)>>
  OBVIOUS
<1>2. << <<a, b>>[1], <<a, b>>[Len(<<a, b>>)] >> = <<a, b>>
  OBVIOUS
<1>. QED BY <1>1, <1>2 DEF transferTx, Transferred

LEMMA SplitIs ==
    ASSUME NEW p, NEW a, NEW x, NEW pubkey, NEW change
    PROVE  transferTx(p, <<a>>, << [balance |-> x, pubkey |-> pubkey],
                                  [balance |-> change, pubkey |-> own(p)] >>)
             = Transferred(p, a, a, x, pubkey, change)
<1>. DEFINE out == << [balance |-> x, pubkey |-> pubkey], [balance |-> change, pubkey |-> own(p)] >>
<1>1. [i \in 1 .. 2 |-> utxoCompute(out[i].balance, out[i].pubkey, i)]
        = <<utxoCompute(x, pubkey, 1), utxoCompute(change, own(p), 2)>>
  OBVIOUS
<1>2. << <<a>>[1], <<a>>[Len(<<a>>)] >> = <<a, a>>
  OBVIOUS
<1>. QED BY <1>1, <1>2 DEF transferTx, Transferred

-----------------------------------------------------------------------------
\* A step of one process that leaves the dApp alone.
OthersKept(p) ==
    \A q \in Procs \ {p} :
        /\ at'[q] = at[q] /\ job'[q] = job[q] /\ known'[q] = known[q]
        /\ todo'[q] = todo[q] /\ pending'[q] = pending[q]

LEMMA OwnStep ==
    ASSUME ClientInv, UNCHANGED vars, NEW p \in Procs, OthersKept(p), ClientTypeOK',
           JobInv(p)', ProcInv(p)', PaysInv(p)',
           \A tx \in Pending' : tx \in Pending \/ TxInv(tx)
    PROVE  ClientInv'
<1>1. U' = U /\ N' = N /\ MESSAGE_NUM' = MESSAGE_NUM /\ M' = M
  BY DEF vars
<1>2. Unspent' = Unspent
  BY <1>1 DEF Unspent, NullifierOf
<1>3. \A k, n : PrefixAssets(k, n)' = PrefixAssets(k, n)
  BY <1>1 DEF PrefixAssets, Prefix, PrefixNullifiers
<1>4. \A t : TxInv(t) => TxInv(t)'
  <2>1. \A t : Splits(t) => Splits(t)'
    BY <1>1, <1>3 DEF Splits, HalfOf
  <2>. QED BY <1>1, <2>1 DEF TxInv, IsDeposit, IsWithdrawal, IsTransfer, Merges, Values
<1>5. \A tx \in Pending' : TxInv(tx)'
  BY <1>4 DEF ClientInv
<1>0. \A k : Halved(k) => Halved(k)'
  BY HalvedSame
<1>6. LoneAsset' /\ OneDust' /\ TwoDust'
  BY <1>0, <1>1, <1>2, <1>3 DEF ClientInv, LoneAsset, OneDust, TwoDust, DustOf
<1>7. ASSUME NEW q \in Procs \ {p}
      PROVE  JobInv(q)' /\ ProcInv(q)' /\ PaysInv(q)'
  <2>1. /\ at'[q] = at[q] /\ job'[q] = job[q] /\ known'[q] = known[q]
        /\ todo'[q] = todo[q] /\ pending'[q] = pending[q]
    BY DEF OthersKept
  <2>2. JobInv(q) /\ ProcInv(q) /\ PaysInv(q)
    BY DEF ClientInv
  <2>3. assets(q)' = assets(q)
    BY <1>1, <2>1 DEF assets, PrefixAssets, Prefix, PrefixNullifiers
  <2>. QED BY <1>0, <1>1, <2>1, <2>2, <2>3 DEF JobInv, ProcInv, PaysInv
<1>. QED BY <1>2, <1>5, <1>6, <1>7 DEF ClientInv

\* A process that ends.
LEMMA ExitStep ==
    ASSUME IInv, ClientInv, UNCHANGED vars, NEW p \in Procs, Exit(p),
           pending' \in [Procs -> Transactions \cup {None}],
           \A q \in Procs \ {p} : pending'[q] = pending[q],
           orphans' \subseteq Transactions, Pending' \subseteq Pending, pending'[p] = None
    PROVE  ClientInv'
<1>1. /\ ClientTypeOK /\ MESSAGE_NUM' = MESSAGE_NUM
      /\ at' = [at EXCEPT ![p] = "shell"] /\ job' = [job EXCEPT ![p] = None]
      /\ known' = [known EXCEPT ![p] = 0] /\ todo' = [todo EXCEPT ![p] = {}]
  BY DEF Exit, Goto, ClientInv, vars
<1>2. /\ at'[p] = "shell" /\ known'[p] = 0 /\ todo'[p] = {}
  BY <1>1 DEF ClientTypeOK
<1>3. ClientTypeOK'
  BY <1>1 DEF ClientTypeOK, Places
<1>4. OthersKept(p)
  BY <1>1 DEF OthersKept, ClientTypeOK
<1>5. JobInv(p)' /\ PaysInv(p)'
  BY <1>2 DEF JobInv, PaysInv
<1>6. ProcInv(p)'
  <2>1. MESSAGE_NUM \in Nat
    BY DEF IInv, TypeOK
  <2>. QED BY <1>1, <1>2, <2>1 DEF ProcInv
<1>. QED BY <1>3, <1>4, <1>5, <1>6, OwnStep

\* The steps of a process, one by one.
LEMMA StartStep ==
    ASSUME IInv, ClientInv, NEW p \in Procs, Start(p)
    PROVE  ClientInv'
<1>1. PICK c \in Requests :
         /\ accepted(c)
         /\ job' = [job EXCEPT ![p] = c]
         /\ at' = [at EXCEPT ![p] = IF c.command = "DEPOSIT" THEN "deposit" ELSE "collect"]
  BY DEF Start, Goto
<1>2. /\ at[p] = "shell" /\ UNCHANGED vars /\ MESSAGE_NUM' = MESSAGE_NUM /\ M' = M /\ U' = U
      /\ known' = known /\ todo' = todo /\ pending' = pending /\ orphans' = orphans
  BY DEF Start, vars
<1>3. c \in Commands
  BY ClientAssumption DEF Commands
<1>4. ClientTypeOK /\ JobInv(p) /\ ProcInv(p) /\ PaysInv(p)
  BY DEF ClientInv
<1>5. ClientTypeOK'
  BY <1>1, <1>2, <1>3, <1>4 DEF ClientTypeOK, Places
<1>6. OthersKept(p) /\ job'[p] = c /\ at'[p] = IF c.command = "DEPOSIT" THEN "deposit" ELSE "collect"
  BY <1>1, <1>2, <1>4 DEF OthersKept, ClientTypeOK
<1>7. JobInv(p)'
  BY <1>1, <1>3, <1>6 DEF JobInv, accepted
<1>8. ProcInv(p)'
  <2>1. assets(p)' = assets(p)
    BY <1>2 DEF assets, PrefixAssets, Prefix, PrefixNullifiers
  <2>. QED BY <1>2, <1>4, <1>6, <2>1, HalvedSame DEF ProcInv
<1>9. PaysInv(p)'
  BY <1>2, <1>4, <1>6 DEF PaysInv
<1>. QED BY <1>2, <1>5, <1>6, <1>7, <1>8, <1>9, OwnStep DEF Pending

\* A process that broadcasts goes on, with a transaction of the kinds above.
LEMMA BroadcastStep ==
    ASSUME IInv, ClientInv, UNCHANGED vars, NEW p \in Procs, NEW tx \in Transactions, TxInv(tx),
           NEW place \in Places, Broadcast(p, tx, place), UNCHANGED <<known, orphans>>,
           todo' \in [Procs -> SUBSET Notes], \A q \in Procs \ {p} : todo'[q] = todo[q],
           todo'[p] \subseteq todo[p],
           job' \in [Procs -> Commands \cup {None}], \A q \in Procs \ {p} : job'[q] = job[q],
           JobInv(p)', PaysInv(p)', place # "abstractTransfer"
    PROVE  ClientInv'
<1>1. /\ ClientTypeOK /\ ProcInv(p) /\ known' = known /\ orphans' = orphans
      /\ MESSAGE_NUM' = MESSAGE_NUM /\ U' = U
      /\ at' = [at EXCEPT ![p] = place] /\ pending' = [pending EXCEPT ![p] = tx]
  BY DEF Broadcast, Goto, ClientInv, vars
<1>2. ClientTypeOK'
  BY <1>1 DEF ClientTypeOK
<1>3. OthersKept(p) /\ at'[p] = place
  BY <1>1 DEF OthersKept, ClientTypeOK
<1>4. ProcInv(p)'
  BY <1>1, <1>3, HalvedSame DEF ProcInv, own
<1>5. \A t \in Pending' : t \in Pending \/ TxInv(t)
  <2>1. \A q \in Procs : pending'[q] = pending[q] \/ pending'[q] = tx
    BY <1>1 DEF ClientTypeOK
  <2>2. DOMAIN pending' = Procs /\ DOMAIN pending = Procs
    BY <1>1 DEF ClientTypeOK
  <2>. QED BY <1>1, <2>1, <2>2 DEF Pending, Values
<1>. QED BY <1>2, <1>3, <1>4, <1>5, OwnStep

LEMMA DepositUtxoStep ==
    ASSUME IInv, ClientInv, NEW p \in Procs, DepositUtxo(p)
    PROVE  ClientInv'
<1>1. ClientTypeOK /\ JobInv(p)
  BY DEF ClientInv
<1>. DEFINE tx == depositTx(job[p].balance, job[p].pubkey)
            only == OnlyCollect(p)
<1>2. /\ at[p] = "deposit" /\ pending[p] = None /\ CanDraw(1)
      /\ Broadcast(p, tx, "collect") /\ job' = [job EXCEPT ![p] = only]
      /\ UNCHANGED vars /\ known' = known /\ todo' = todo /\ orphans' = orphans
  BY DEF DepositUtxo, Running
<1>3. job[p].balance \in Nat /\ job[p].balance >= fee /\ job[p].pubkey \in PubKeys
  BY <1>1, <1>2, FeeType DEF JobInv, Commands
<1>4. tx \in Transactions /\ TxInv(tx) /\ tx.call = "deposit"
  BY <1>2, <1>3, DepositTx
<1>5. only \in Commands /\ only.command = "DETAILS"
  BY KeysArePrivate DEF OnlyCollect, Commands, own, PubKeys
<1>. HIDE DEF tx, only
<1>6. /\ job' \in [Procs -> Commands \cup {None}] /\ \A q \in Procs \ {p} : job'[q] = job[q]
      /\ job'[p] = only
  BY <1>1, <1>2, <1>5 DEF ClientTypeOK
<1>7. at'[p] = "collect" /\ pending'[p] = tx
  BY <1>1, <1>2 DEF ClientTypeOK, Broadcast, Goto
<1>8. JobInv(p)' /\ PaysInv(p)'
  BY <1>4, <1>5, <1>6, <1>7 DEF JobInv, PaysInv
<1>9. todo' \in [Procs -> SUBSET Notes] /\ \A q \in Procs : todo'[q] = todo[q]
  BY <1>1, <1>2 DEF ClientTypeOK
<1>10. "collect" \in Places /\ "collect" # "abstractTransfer"
  BY DEF Places
<1>. QED BY <1>2, <1>4, <1>6, <1>8, <1>9, <1>10, BroadcastStep

\* At most one element, and the sets collect() tests for that.
LEMMA FewElements ==
    ASSUME NEW S, IsFiniteSet(S)
    PROVE  Cardinality(S) <= 1 <=> \A a, b \in S : a = b
<1>1. Cardinality(S) \in Nat
  BY FS_CardinalityType
<1>2. ASSUME Cardinality(S) <= 1, NEW a \in S, NEW b \in S
      PROVE  a = b
  <2>1. CASE Cardinality(S) = 0
    BY <2>1, FS_EmptySet
  <2>2. CASE Cardinality(S) = 1
    <3>1. \E x : S = {x}
      BY <2>2, FS_Singleton
    <3>. QED BY <3>1
  <2>. QED BY <1>1, <1>2, <2>1, <2>2
<1>3. ASSUME \A a, b \in S : a = b
      PROVE  Cardinality(S) <= 1
  <2>1. CASE S = {}
    BY <2>1, FS_EmptySet
  <2>2. CASE S # {}
    <3>1. PICK x : S = {x}
      BY <1>3, <2>2
    <3>. QED BY <3>1, FS_Singleton
  <2>. QED BY <2>1, <2>2
<1>. QED BY <1>2, <1>3

LEMMA CollectStep ==
    ASSUME IInv, ClientInv, NEW p \in Procs, Collect(p)
    PROVE  ClientInv'
<1>. DEFINE now == PrefixAssets(Seed[p], MESSAGE_NUM)
<1>1. /\ ClientTypeOK /\ JobInv(p) /\ MESSAGE_NUM \in Nat /\ DOMAIN pending = Procs
      /\ at[p] = "collect" /\ pending[p] = None
      /\ UNCHANGED vars /\ pending' = pending /\ orphans' = orphans
  BY DEF Collect, Running, ClientInv, IInv, TypeOK, ClientTypeOK
<1>2. now = {n \in Unspent : n.pubkey = own(p)}
  BY KeysArePrivate, CurrentAssets DEF own
<1>3. now \in SUBSET Unspent /\ IsFiniteSet(now) /\ now \in SUBSET Notes
  <2>1. now \in SUBSET Unspent /\ Unspent \in SUBSET Notes
    BY <1>2 DEF Unspent
  <2>. HIDE DEF now
  <2>. QED BY <2>1, FS_Subset DEF ClientInv
<1>4. MESSAGE_NUM' = MESSAGE_NUM /\ M' = M /\ U' = U
  BY <1>1 DEF vars
<1>5. Pending' = Pending
  BY <1>1 DEF Pending, Values
<1>6. CASE ~collected(now)
  <2>1. /\ known' = [known EXCEPT ![p] = MESSAGE_NUM] /\ todo' = [todo EXCEPT ![p] = now]
        /\ at' = at /\ job' = job
    BY <1>6 DEF Collect
  <2>. HIDE DEF now
  <2>2. ClientTypeOK'
    BY <1>1, <1>3, <2>1 DEF ClientTypeOK
  <2>3. OthersKept(p) /\ known'[p] = MESSAGE_NUM /\ todo'[p] = now
    BY <1>1, <2>1 DEF OthersKept, ClientTypeOK
  <2>4. JobInv(p)' /\ PaysInv(p)'
    BY <1>1, <2>1 DEF JobInv, PaysInv
  <2>5. ProcInv(p)'
    <3>1. \A a \in now : a.pubkey = own(p) /\ UTXOHasher(a) \in U
      BY <1>2 DEF Unspent
    <3>2. \A a, b \in now : a.balance < fee /\ b.balance < fee => a = b \/ Halved(Seed[p])'
      BY <1>1, <1>2, KeysArePrivate, HalvedSame DEF ClientInv, OneDust, DustOf, own
    <3>3. at'[p] # "abstractTransfer" /\ known'[p] <= MESSAGE_NUM'
      BY <1>1, <1>4, <2>1, <2>3
    <3>. QED BY <1>4, <2>3, <3>1, <3>2, <3>3 DEF ProcInv, own, fee
  <2>. QED BY <1>1, <1>5, <2>2, <2>3, <2>4, <2>5, OwnStep
<1>7. CASE collected(now) /\ job[p].command \in {"TRANSFER", "WITHDRAWAL"}
  <2>1. /\ known' = [known EXCEPT ![p] = MESSAGE_NUM] /\ todo' = [todo EXCEPT ![p] = {}]
        /\ at' = [at EXCEPT ![p] = "abstractTransfer"] /\ job' = job
    BY <1>7 DEF Collect, Goto
  <2>2. ClientTypeOK'
    BY <1>1, <2>1 DEF ClientTypeOK, Places
  <2>3. OthersKept(p) /\ known'[p] = MESSAGE_NUM /\ todo'[p] = {} /\ at'[p] = "abstractTransfer"
    BY <1>1, <2>1 DEF OthersKept, ClientTypeOK
  <2>4. JobInv(p)' /\ PaysInv(p)'
    BY <1>1, <1>7, <2>1, <2>3 DEF JobInv, PaysInv
  <2>5. assets(p)' = now
    BY <1>4, <2>3 DEF assets, PrefixAssets, Prefix, PrefixNullifiers
  <2>6. \A a, b \in now : a = b
    <3>1. Cardinality(now) <= 1
      BY <1>7 DEF collected
    <3>. HIDE DEF now
    <3>. QED BY <1>3, <3>1, FewElements
  <2>. HIDE DEF now
  <2>7. ProcInv(p)'
    BY <1>1, <1>4, <2>3, <2>5, <2>6 DEF ProcInv
  <2>. QED BY <1>1, <1>5, <2>2, <2>3, <2>4, <2>7, OwnStep
<1>8. CASE collected(now) /\ job[p].command \notin {"TRANSFER", "WITHDRAWAL"}
  <2>1. Exit(p)
    BY <1>8 DEF Collect
  <2>2. /\ pending' \in [Procs -> Transactions \cup {None}] /\ pending'[p] = None
        /\ orphans' \subseteq Transactions /\ Pending' \subseteq Pending
    BY <1>1, <1>5 DEF ClientTypeOK
  <2>. QED BY <1>1, <2>1, <2>2, ExitStep
<1>. QED BY <1>6, <1>7, <1>8

LEMMA RoundStep ==
    ASSUME IInv, ClientInv, NEW p \in Procs, Round(p)
    PROVE  ClientInv'
<1>1. PICK a \in todo[p], b \in todo[p] :
         /\ a # b
         /\ LET rest == a.balance + b.balance - fee
            IN  IF rest < 0
                THEN Exit(p) /\ UNCHANGED pending
                ELSE /\ CanDraw(3)
                     /\ Broadcast(p, transferTx(p, <<a, b>>,
                                         << [balance |-> 0, pubkey |-> PubKey(Stranger)],
                                            [balance |-> rest, pubkey |-> own(p)] >>), "collect")
                     /\ todo' = [todo EXCEPT ![p] = @ \ {a, b}]
                     /\ UNCHANGED <<job, known>>
  BY DEF Round
<1>2. /\ ClientTypeOK /\ JobInv(p) /\ ProcInv(p) /\ DOMAIN pending = Procs
      /\ at[p] = "collect" /\ pending[p] = None
      /\ UNCHANGED vars /\ orphans' = orphans
  BY DEF Round, Running, ClientInv, ClientTypeOK
<1>. DEFINE rest == a.balance + b.balance - fee
            tx == Transferred(p, a, b, 0, PubKey(Stranger), rest)
<1>3. /\ a \in Notes /\ a.pubkey = own(p) /\ UTXOHasher(a) \in U
      /\ b \in Notes /\ b.pubkey = own(p) /\ UTXOHasher(b) \in U
  BY <1>2 DEF ProcInv, ClientTypeOK
<1>4. rest \in Int
  BY <1>3, NoteType, NumbersAssumption DEF fee
<1>5. CASE rest < 0
  <2>1. Exit(p) /\ pending' = pending
    BY <1>1, <1>5
  <2>2. Pending' = Pending
    BY <1>2, <2>1 DEF Pending, Values
  <2>3. /\ pending' \in [Procs -> Transactions \cup {None}] /\ pending'[p] = None
        /\ orphans' \subseteq Transactions
    BY <1>2, <2>1 DEF ClientTypeOK
  <2>. QED BY <1>2, <2>1, <2>2, <2>3, ExitStep
<1>6. CASE ~(rest < 0)
  <2>0. transferTx(p, <<a, b>>, << [balance |-> 0, pubkey |-> PubKey(Stranger)],
                                  [balance |-> rest, pubkey |-> own(p)] >>) = tx
    <3>. DEFINE zero == 0 pubkey == PubKey(Stranger)
    <3>. HIDE DEF rest, zero, pubkey
    <3>1. transferTx(p, <<a, b>>, << [balance |-> zero, pubkey |-> pubkey],
                                    [balance |-> rest, pubkey |-> own(p)] >>)
            = Transferred(p, a, b, zero, pubkey, rest)
      BY ONLY MergerIs
    <3>. QED BY <3>1 DEF zero, pubkey
  <2>1. /\ CanDraw(3) /\ Broadcast(p, tx, "collect")
        /\ todo' = [todo EXCEPT ![p] = @ \ {a, b}] /\ job' = job /\ known' = known
    <3>. HIDE DEF tx
    <3>. QED BY <1>1, <1>6, <2>0
  <2>2. rest \in Nat /\ 0 \in Nat /\ PubKey(Stranger) \in PubKeys
    BY <1>4, <1>6, ClientAssumption DEF PubKeys
  <2>. HIDE DEF rest
  <2>3. /\ tx \in Transactions /\ IsTransfer(tx)
        /\ \A n \in Values(tx.in) : UTXOHasher(n) \in U
        /\ tx.call = "transfer" /\ tx.key = Seed[p] /\ tx.in[1] = a /\ tx.in[2] = b
        /\ tx.out[1].pubkey = PubKey(Stranger)
        /\ tx.out[2].balance = rest /\ tx.out[2].pubkey = own(p)
    BY <1>3, <2>1, <2>2, TransferredTx
  <2>. HIDE DEF tx
  <2>4. TxInv(tx)
    BY <1>1, <2>3 DEF TxInv, Merges, own, rest
  <2>5. at'[p] = "collect" /\ pending'[p] = tx
    BY <1>2, <2>1 DEF ClientTypeOK, Broadcast, Goto
  <2>6. JobInv(p)' /\ PaysInv(p)'
    BY <1>2, <2>1, <2>3, <2>5 DEF JobInv, PaysInv
  <2>7. /\ todo' \in [Procs -> SUBSET Notes] /\ todo'[p] \subseteq todo[p]
        /\ \A q \in Procs \ {p} : todo'[q] = todo[q]
        /\ job' \in [Procs -> Commands \cup {None}] /\ \A q \in Procs \ {p} : job'[q] = job[q]
    BY <1>2, <2>1 DEF ClientTypeOK
  <2>8. "collect" \in Places /\ "collect" # "abstractTransfer"
    BY DEF Places
  <2>. QED BY <1>2, <2>1, <2>3, <2>4, <2>6, <2>7, <2>8, BroadcastStep
<1>. QED BY <1>5, <1>6

LEMMA AbstractTransferStep ==
    ASSUME IInv, ClientInv, NEW p \in Procs, AbstractTransfer(p)
    PROVE  ClientInv'
<1>. DEFINE balance == splitBalance(job[p])
            pubkey  == IF job[p].command = "WITHDRAWAL" THEN own(p) ELSE job[p].pubkey
            enough  == {a \in assets(p) : a.balance >= balance + fee}
<1>1. /\ ClientTypeOK /\ JobInv(p) /\ ProcInv(p) /\ DOMAIN pending = Procs
      /\ at[p] = "abstractTransfer" /\ pending[p] = None
      /\ UNCHANGED vars /\ orphans' = orphans
  BY DEF AbstractTransfer, Running, ClientInv, ClientTypeOK
<1>2. /\ balance \in Int /\ fee \in Nat /\ pubkey \in PubKeys
      /\ balance >= fee \/ (job[p].command = "WITHDRAWAL" /\ job[p] \in Requests
                             /\ job[p].balance < 0 /\ balance = job[p].balance + fee)
  <2>1. job[p] \in Commands /\ job[p].command \in {"TRANSFER", "WITHDRAWAL"} /\ fee \in Nat
    BY <1>1, FeeType DEF JobInv
  <2>2. own(p) \in PubKeys
    BY KeysArePrivate DEF own, PubKeys
  <2>3. job[p].balance \in Int /\ job[p].pubkey \in PubKeys
    BY <2>1 DEF Commands
  <2>4. /\ job[p].command = "TRANSFER" => job[p].balance >= fee
        /\ job[p].command = "WITHDRAWAL" => job[p] \in Requests
    BY <1>1 DEF JobInv
  <2>5. balance = IF job[p].command = "WITHDRAWAL" THEN job[p].balance + fee ELSE job[p].balance
    BY DEF splitBalance
  <2>. HIDE DEF balance
  <2>. QED BY <2>1, <2>2, <2>3, <2>4, <2>5
<1>3. CASE enough = {} \/ balance < 0
  <2>1. Exit(p) /\ pending' = pending
    BY <1>3 DEF AbstractTransfer
  <2>2. Pending' = Pending
    BY <1>1, <2>1 DEF Pending, Values
  <2>3. /\ pending' \in [Procs -> Transactions \cup {None}] /\ pending'[p] = None
        /\ orphans' \subseteq Transactions
    BY <1>1, <2>1 DEF ClientTypeOK
  <2>. QED BY <1>1, <2>1, <2>2, <2>3, ExitStep
<1>4. CASE ~(enough = {} \/ balance < 0)
  <2>1. PICK a \in enough :
           Broadcast(p, transferTx(p, <<a>>, << [balance |-> balance, pubkey |-> pubkey],
                                               [balance |-> a.balance - balance - fee, pubkey |-> own(p)] >>),
                     "syncData")
    BY <1>4 DEF AbstractTransfer
  <2>2. CanDraw(3) /\ job' = job /\ known' = known /\ todo' = todo
    BY <1>4 DEF AbstractTransfer
  <2>. DEFINE change == a.balance - balance - fee
              tx == Transferred(p, a, a, balance, pubkey, change)
  <2>3. Broadcast(p, tx, "syncData")
    <3>1. transferTx(p, <<a>>, << [balance |-> balance, pubkey |-> pubkey],
                                 [balance |-> change, pubkey |-> own(p)] >>) = tx
      <4>. HIDE DEF balance, pubkey, change
      <4>. QED BY SplitIs
    <3>. HIDE DEF tx
    <3>. QED BY <2>1, <3>1
  <2>4. /\ a \in assets(p) /\ a.balance >= balance + fee
        /\ a \in Notes /\ a.pubkey = own(p) /\ UTXOHasher(a) \in U
    BY AssetType, KeysArePrivate DEF assets, own
  <2>. HIDE DEF balance, pubkey
  <2>5. balance \in Nat /\ change \in Nat /\ a.balance >= fee
    <3>1. a.balance \in Int /\ balance \in Nat
      BY <1>2, <1>4, <2>4, NoteType
    <3>. QED BY <1>2, <2>4, <3>1
  <2>. HIDE DEF change
  <2>6. /\ tx \in Transactions /\ IsTransfer(tx)
        /\ \A n \in Values(tx.in) : UTXOHasher(n) \in U
        /\ tx.call = "transfer" /\ tx.key = Seed[p] /\ tx.in[1] = a /\ tx.in[2] = a
        /\ tx.out[1].balance = balance /\ tx.out[1].pubkey = pubkey
        /\ tx.out[2].pubkey = own(p)
    BY <1>2, <2>2, <2>4, <2>5, TransferredTx
  <2>. HIDE DEF tx
  <2>7. Splits(tx)
    <3>1. \A b \in assets(p) : b = a
      BY <1>1, <2>4 DEF ProcInv
    <3>2. PrefixAssets(tx.key, known[p]) = {a}
      BY <2>4, <2>6, <3>1 DEF assets
    <3>3. known[p] \in Nat /\ known[p] <= MESSAGE_NUM
      BY <1>1 DEF ProcInv, ClientTypeOK
    <3>4. tx.out[1].balance >= fee \/ HalfOf(tx.out[1], tx.key)
      BY <1>2, <2>6 DEF HalfOf, pubkey, own
    <3>. QED BY <2>5, <2>6, <3>2, <3>3, <3>4 DEF Splits
  <2>8. TxInv(tx)
    BY <2>6, <2>7 DEF TxInv, own
  <2>9. at'[p] = "syncData" /\ pending'[p] = tx
    BY <1>1, <2>3 DEF ClientTypeOK, Broadcast, Goto
  <2>10. JobInv(p)' /\ PaysInv(p)'
    BY <1>1, <2>2, <2>6, <2>9 DEF JobInv, PaysInv
  <2>11. /\ todo' \in [Procs -> SUBSET Notes] /\ todo'[p] \subseteq todo[p]
         /\ \A q \in Procs \ {p} : todo'[q] = todo[q]
         /\ job' \in [Procs -> Commands \cup {None}] /\ \A q \in Procs \ {p} : job'[q] = job[q]
    BY <1>1, <2>2 DEF ClientTypeOK
  <2>12. "syncData" \in Places /\ "syncData" # "abstractTransfer"
    BY DEF Places
  <2>. QED BY <1>1, <2>2, <2>3, <2>6, <2>8, <2>10, <2>11, <2>12, BroadcastStep
<1>. QED BY <1>3, <1>4

LEMMA SyncAgainStep ==
    ASSUME IInv, ClientInv, NEW p \in Procs, SyncAgain(p)
    PROVE  ClientInv'
<1>1. /\ ClientTypeOK /\ JobInv(p) /\ ProcInv(p) /\ DOMAIN pending = Procs /\ MESSAGE_NUM \in Nat
      /\ at[p] = "syncData" /\ pending[p] = None
      /\ UNCHANGED vars /\ orphans' = orphans /\ pending' = pending
  BY DEF SyncAgain, Running, ClientInv, ClientTypeOK, IInv, TypeOK
<1>2. MESSAGE_NUM' = MESSAGE_NUM /\ U' = U /\ Pending' = Pending
  BY <1>1 DEF vars, Pending, Values
<1>3. CASE job[p].command = "WITHDRAWAL"
  <2>1. /\ known' = [known EXCEPT ![p] = MESSAGE_NUM] /\ at' = [at EXCEPT ![p] = "withdrawal"]
        /\ job' = job /\ todo' = todo
    BY <1>3 DEF SyncAgain, synced, Goto
  <2>2. ClientTypeOK'
    BY <1>1, <2>1 DEF ClientTypeOK, Places
  <2>3. OthersKept(p) /\ known'[p] = MESSAGE_NUM /\ at'[p] = "withdrawal"
    BY <1>1, <2>1 DEF OthersKept, ClientTypeOK
  <2>4. JobInv(p)' /\ PaysInv(p)'
    BY <1>1, <1>3, <2>1, <2>3 DEF JobInv, PaysInv
  <2>5. ProcInv(p)'
    BY <1>1, <1>2, <2>1, <2>3, HalvedSame DEF ProcInv, own
  <2>. QED BY <1>1, <1>2, <2>2, <2>3, <2>4, <2>5, OwnStep
<1>4. CASE job[p].command # "WITHDRAWAL"
  <2>1. Exit(p)
    BY <1>4 DEF SyncAgain
  <2>2. pending' \in [Procs -> Transactions \cup {None}] /\ orphans' \subseteq Transactions
    BY <1>1 DEF ClientTypeOK
  <2>. QED BY <1>1, <1>2, <2>1, <2>2, ExitStep
<1>. QED BY <1>3, <1>4

LEMMA WithdrawPartStep ==
    ASSUME IInv, ClientInv, NEW p \in Procs, WithdrawPart(p)
    PROVE  ClientInv'
<1>1. /\ ClientTypeOK /\ JobInv(p) /\ ProcInv(p) /\ DOMAIN pending = Procs
      /\ at[p] = "withdrawal" /\ pending[p] = None
      /\ UNCHANGED vars /\ orphans' = orphans
  BY DEF WithdrawPart, Running, ClientInv, ClientTypeOK
<1>2. CASE parts(p) = {}
  <2>1. Exit(p) /\ pending' = pending
    BY <1>2 DEF WithdrawPart
  <2>2. Pending' = Pending
    BY <1>1, <2>1 DEF Pending, Values
  <2>3. /\ pending' \in [Procs -> Transactions \cup {None}] /\ pending'[p] = None
        /\ orphans' \subseteq Transactions
    BY <1>1, <2>1 DEF ClientTypeOK
  <2>. QED BY <1>1, <2>1, <2>2, <2>3, ExitStep
<1>3. CASE parts(p) # {}
  <2>1. PICK a \in parts(p) : Broadcast(p, withdrawalTx(p, a), "lastCollect")
    BY <1>3 DEF WithdrawPart
  <2>2. job' = job /\ known' = known /\ todo' = todo
    BY <1>3 DEF WithdrawPart
  <2>3. a \in assets(p) /\ a.balance = splitBalance(job[p])
    BY DEF parts
  <2>4. a \in Notes /\ a.pubkey = own(p) /\ UTXOHasher(a) \in U
    BY <2>3, AssetType, KeysArePrivate DEF assets, own
  <2>. DEFINE tx == withdrawalTx(p, a)
  <2>5. tx \in Transactions /\ TxInv(tx) /\ tx.call = "withdrawal" /\ tx.in[1] = a
    BY <2>4, WithdrawalTx
  <2>6. Broadcast(p, tx, "lastCollect")
    BY <2>1
  <2>. HIDE DEF tx
  <2>7. at'[p] = "lastCollect" /\ pending'[p] = tx /\ job'[p] = job[p]
    BY <1>1, <2>2, <2>6 DEF ClientTypeOK, Broadcast, Goto
  <2>8. job[p].command = "WITHDRAWAL" /\ job[p] \in Commands /\ job[p] \in Requests
    BY <1>1 DEF JobInv
  <2>9. JobInv(p)' /\ PaysInv(p)'
    BY <2>3, <2>5, <2>7, <2>8 DEF JobInv, PaysInv, splitBalance, fee
  <2>10. /\ todo' \in [Procs -> SUBSET Notes] /\ todo'[p] \subseteq todo[p]
         /\ \A q \in Procs \ {p} : todo'[q] = todo[q]
         /\ job' \in [Procs -> Commands \cup {None}] /\ \A q \in Procs \ {p} : job'[q] = job[q]
    BY <1>1, <2>2 DEF ClientTypeOK
  <2>11. "lastCollect" \in Places /\ "lastCollect" # "abstractTransfer"
    BY DEF Places
  <2>. QED BY <1>1, <2>2, <2>5, <2>6, <2>9, <2>10, <2>11, BroadcastStep
<1>. QED BY <1>2, <1>3

LEMMA WithdrawnStep ==
    ASSUME IInv, ClientInv, NEW p \in Procs, Withdrawn(p)
    PROVE  ClientInv'
<1>. DEFINE only == OnlyCollect(p)
<1>1. /\ ClientTypeOK /\ ProcInv(p)
      /\ at[p] = "lastCollect" /\ pending[p] = None
      /\ UNCHANGED vars /\ U' = U /\ MESSAGE_NUM' = MESSAGE_NUM
      /\ orphans' = orphans /\ pending' = pending /\ known' = known /\ todo' = todo
      /\ job' = [job EXCEPT ![p] = only] /\ at' = [at EXCEPT ![p] = "collect"]
  BY DEF Withdrawn, Running, ClientInv, Goto, vars
<1>2. only \in Commands /\ only.command = "DETAILS"
  BY KeysArePrivate DEF OnlyCollect, Commands, own, PubKeys
<1>. HIDE DEF only
<1>3. ClientTypeOK'
  BY <1>1, <1>2 DEF ClientTypeOK, Places
<1>4. OthersKept(p) /\ job'[p] = only /\ at'[p] = "collect"
  BY <1>1 DEF OthersKept, ClientTypeOK
<1>5. JobInv(p)' /\ PaysInv(p)'
  BY <1>1, <1>2, <1>4 DEF JobInv, PaysInv
<1>6. ProcInv(p)'
  BY <1>1, <1>4, HalvedSame DEF ProcInv, own
<1>7. Pending' = Pending
  BY <1>1 DEF Pending, Values
<1>. QED BY <1>1, <1>3, <1>4, <1>5, <1>6, <1>7, OwnStep

LEMMA FailStep ==
    ASSUME IInv, ClientInv, NEW p \in Procs, Fail(p)
    PROVE  ClientInv'
<1>1. /\ ClientTypeOK /\ Exit(p) /\ UNCHANGED vars
      /\ pending' = [pending EXCEPT ![p] = None]
      /\ orphans' \subseteq orphans \cup ({pending[p]} \ {None})
  BY DEF Fail, ClientInv
<1>2. /\ pending' \in [Procs -> Transactions \cup {None}] /\ pending'[p] = None
      /\ \A q \in Procs \ {p} : pending'[q] = pending[q]
      /\ DOMAIN pending = Procs /\ DOMAIN pending' = Procs
      /\ orphans' \subseteq Transactions
  BY <1>1 DEF ClientTypeOK
<1>3. Pending' \subseteq Pending
  BY <1>1, <1>2 DEF Pending, Values
<1>. QED BY <1>1, <1>2, <1>3, ExitStep

\* A block with a pending transaction.
LEMMA MineStep ==
    ASSUME IInv, ClientInv, NEW tx \in Transactions, tx \in Pending, Mined(tx),
           UNCHANGED <<at, job, known, todo>>,
           pending' \in [Procs -> Transactions \cup {None}],
           \A p \in Procs : pending'[p] \in {pending[p], None},
           orphans' \subseteq orphans
    PROVE  IInv' /\ ClientInv'
<1>1. TxInv(tx) /\ ClientTypeOK /\ LoneAsset /\ OneDust /\ TwoDust /\ IsFiniteSet(Unspent)
  BY DEF ClientInv
<1>2. PICK X : Effect(tx, X)
  BY <1>1, MinedEffect
<1>3. /\ IInv' /\ MESSAGE_NUM \in Nat /\ MESSAGE_NUM' = MESSAGE_NUM + 1
      /\ U \subseteq U' /\ DOMAIN M = 0 .. MESSAGE_NUM - 1
      /\ DOMAIN M' = DOMAIN M \cup {MESSAGE_NUM} /\ \A i \in DOMAIN M : M'[i] = M[i]
  BY <1>2 DEF Effect, IInv, TypeOK, LogIsLedger
<1>4. ClientTypeOK'
  BY <1>1 DEF ClientTypeOK
<1>5. LoneAsset' /\ OneDust' /\ TwoDust'
  BY <1>1, <1>2, OneDustThen, TwoDustThen, LoneAssetThen
<1>6. IsFiniteSet(Unspent)'
  <2>1. Unspent' \subseteq Unspent \cup Values(tx.out)
    BY <1>2, UnspentThen
  <2>2. IsFiniteSet(Values(tx.out))
    <3>1. tx.out \in Seq(Drafted)
      BY DEF Transactions
    <3>2. Len(tx.out) \in {0, 1, 2}
      BY <1>1 DEF TxInv, IsDeposit, IsWithdrawal, IsTransfer
    <3>3. \/ Values(tx.out) = {}
          \/ Values(tx.out) = {tx.out[1]}
          \/ Values(tx.out) = {tx.out[1]} \cup {tx.out[2]}
      BY <3>1, <3>2, ShortSeq
    <3>4. IsFiniteSet({}) /\ IsFiniteSet({tx.out[1]}) /\ IsFiniteSet({tx.out[2]})
      BY FS_EmptySet, FS_Singleton
    <3>. QED BY <3>3, <3>4, FS_Union
  <2>3. IsFiniteSet(Unspent \cup Values(tx.out))
    BY <1>1, <2>2, FS_Union
  <2>. QED BY <2>1, <2>3, FS_Subset
<1>7. \A t \in Pending' : TxInv(t)'
  <2>1. Pending' \subseteq Pending
    <3>1. DOMAIN pending' = Procs /\ DOMAIN pending = Procs
      BY <1>1 DEF ClientTypeOK
    <3>. QED BY <3>1 DEF Pending, Values
  <2>2. \A t \in Pending : TxInv(t)
    BY DEF ClientInv
  <2>3. \A t : TxInv(t) => TxInv(t)'
    BY <1>2, TxStays
  <2>. QED BY <2>1, <2>2, <2>3
<1>8. ASSUME NEW p \in Procs
      PROVE  JobInv(p)' /\ ProcInv(p)' /\ PaysInv(p)'
  <2>1. /\ at'[p] = at[p] /\ job'[p] = job[p] /\ known'[p] = known[p] /\ todo'[p] = todo[p]
        /\ pending'[p] \in {pending[p], None}
    OBVIOUS
  <2>2. JobInv(p) /\ ProcInv(p) /\ PaysInv(p) /\ known[p] \in Nat /\ known[p] <= MESSAGE_NUM
    BY DEF ClientInv, ProcInv, ClientTypeOK
  <2>3. assets(p)' = assets(p)
    <3>1. PICK n \in Nat : n = known[p]
      BY <2>2
    <3>2. PrefixAssets(Seed[p], n)' = PrefixAssets(Seed[p], n)
      BY <1>2, <2>2, <3>1, PrefixKept
    <3>3. assets(p) = PrefixAssets(Seed[p], n)
      BY <3>1 DEF assets
    <3>4. assets(p)' = PrefixAssets(Seed[p], n)'
      BY <2>1, <3>1 DEF assets, PrefixAssets, Prefix, PrefixNullifiers
    <3>. QED BY <3>2, <3>3, <3>4
  <2>4. JobInv(p)' /\ PaysInv(p)'
    BY <2>1, <2>2 DEF JobInv, PaysInv
  <2>5. ProcInv(p)'
    <3>1. Halved(Seed[p]) => Halved(Seed[p])'
      BY <1>3, HalvedKept
    <3>. QED BY <1>3, <2>1, <2>2, <2>3, <3>1 DEF ProcInv, own
  <2>. QED BY <2>4, <2>5
<1>. QED BY <1>3, <1>4, <1>5, <1>6, <1>7, <1>8 DEF ClientInv

LEMMA MineOwnStep ==
    ASSUME IInv, ClientInv, NEW p \in Procs, MineOwn(p)
    PROVE  IInv' /\ ClientInv'
<1>1. /\ pending[p] # None /\ Mined(pending[p]) /\ pending' = [pending EXCEPT ![p] = None]
      /\ orphans' \subseteq orphans /\ UNCHANGED <<at, job, known, todo>>
  BY DEF MineOwn
<1>2. pending \in [Procs -> Transactions \cup {None}]
  BY DEF ClientInv, ClientTypeOK
<1>3. pending[p] \in Transactions /\ pending[p] \in Pending
  BY <1>1, <1>2 DEF Pending, Values
<1>4. /\ pending' \in [Procs -> Transactions \cup {None}]
      /\ \A q \in Procs : pending'[q] \in {pending[q], None}
  BY <1>1, <1>2
<1>. QED BY <1>1, <1>3, <1>4, MineStep

LEMMA MineOrphanStep ==
    ASSUME IInv, ClientInv, MineOrphan
    PROVE  IInv' /\ ClientInv'
<1>1. PICK tx \in orphans :
         Mined(tx) /\ orphans' \subseteq orphans /\ UNCHANGED <<at, job, known, todo, pending>>
  BY DEF MineOrphan
<1>2. pending \in [Procs -> Transactions \cup {None}] /\ orphans \subseteq Transactions
  BY DEF ClientInv, ClientTypeOK
<1>3. tx \in Transactions /\ tx \in Pending
  BY <1>2, NoneAssumption DEF Pending
<1>4. /\ pending' \in [Procs -> Transactions \cup {None}]
      /\ \A q \in Procs : pending'[q] \in {pending[q], None}
  BY <1>1, <1>2
<1>. QED BY <1>1, <1>3, <1>4, MineStep

-----------------------------------------------------------------------------
LEMMA ClientInitInv == ClientInit => IInv /\ ClientInv
<1>. SUFFICES ASSUME ClientInit PROVE IInv /\ ClientInv
  OBVIOUS
<1>1. /\ Init /\ at = [p \in Procs |-> "shell"] /\ job = [p \in Procs |-> None]
      /\ known = [p \in Procs |-> 0] /\ todo = [p \in Procs |-> {}]
      /\ pending = [p \in Procs |-> None] /\ orphans = {}
  BY DEF ClientInit
<1>2. IInv
  BY <1>1, InitInv
<1>3. Unspent = {} /\ MESSAGE_NUM = 0
  BY <1>1 DEF Init, Unspent
<1>4. ClientTypeOK
  BY <1>1 DEF ClientTypeOK, Places
<1>5. \A p \in Procs : JobInv(p) /\ ProcInv(p) /\ PaysInv(p)
  BY <1>1, <1>3 DEF JobInv, ProcInv, PaysInv
<1>6. Pending = {}
  BY <1>1 DEF Pending, Values
<1>7. LoneAsset /\ OneDust /\ TwoDust
  BY <1>3 DEF LoneAsset, OneDust, TwoDust, DustOf
<1>. QED BY <1>2, <1>3, <1>4, <1>5, <1>6, <1>7, FS_EmptySet DEF ClientInv

LEMMA ClientStutter ==
    ASSUME IInv, ClientInv, UNCHANGED allVars
    PROVE  IInv' /\ ClientInv'
<1>1. /\ UNCHANGED vars /\ at' = at /\ job' = job /\ known' = known /\ todo' = todo
      /\ pending' = pending /\ orphans' = orphans
      /\ U' = U /\ N' = N /\ MESSAGE_NUM' = MESSAGE_NUM /\ M' = M
  BY DEF allVars, vars, clientVars
<1>2. IInv'
  BY <1>1, StutterInv
<1>3. Unspent' = Unspent /\ Pending' = Pending
  BY <1>1 DEF Unspent, NullifierOf, Pending, Values
<1>4. \A k, n : PrefixAssets(k, n)' = PrefixAssets(k, n)
  BY <1>1 DEF PrefixAssets, Prefix, PrefixNullifiers
<1>5. \A t : TxInv(t) => TxInv(t)'
  <2>1. \A t : Splits(t) => Splits(t)'
    BY <1>1, <1>4 DEF Splits, HalfOf
  <2>. QED BY <1>1, <2>1 DEF TxInv, IsDeposit, IsWithdrawal, IsTransfer, Merges, Values
<1>6. \A p \in Procs : JobInv(p)' /\ ProcInv(p)' /\ PaysInv(p)'
  <2>1. \A p : assets(p)' = assets(p)
    BY <1>1 DEF assets, PrefixAssets, Prefix, PrefixNullifiers
  <2>. QED BY <1>1, <2>1, HalvedSame DEF ClientInv, JobInv, ProcInv, PaysInv, own
<1>7. LoneAsset' /\ OneDust' /\ TwoDust' /\ ClientTypeOK'
  BY <1>1, <1>3, <1>4, HalvedSame DEF ClientInv, LoneAsset, OneDust, TwoDust, DustOf, ClientTypeOK
<1>. QED BY <1>2, <1>3, <1>5, <1>6, <1>7 DEF ClientInv

LEMMA ClientStep ==
    ASSUME IInv, ClientInv, ClientNext
    PROVE  IInv' /\ ClientInv'
<1>1. ASSUME NEW p \in Procs, Start(p) \/ Proceed(p) \/ Fail(p)
      PROVE  IInv' /\ ClientInv'
  <2>1. UNCHANGED vars
    BY <1>1 DEF Start, Proceed, Fail, DepositUtxo, Collect, Round, AbstractTransfer, SyncAgain,
                WithdrawPart, Withdrawn
  <2>2. IInv'
    BY <2>1, StutterInv
  <2>3. ClientInv'
    BY <1>1, StartStep, DepositUtxoStep, CollectStep, RoundStep, AbstractTransferStep, SyncAgainStep,
       WithdrawPartStep, WithdrawnStep, FailStep DEF Proceed
  <2>. QED BY <2>2, <2>3
<1>. QED BY <1>1, MineOrphanStep, MineOwnStep DEF ClientNext

LEMMA ClientInductive == ClientSpec => [](IInv /\ ClientInv)
<1>1. IInv /\ ClientInv /\ [ClientNext]_allVars => (IInv /\ ClientInv)'
  <2>. SUFFICES ASSUME IInv, ClientInv, [ClientNext]_allVars PROVE IInv' /\ ClientInv'
    OBVIOUS
  <2>. QED BY ClientStep, ClientStutter
<1>. QED BY <1>1, ClientInitInv, PTL DEF ClientSpec

-----------------------------------------------------------------------------
\* At most two elements.
LEMMA TwoElements ==
    ASSUME NEW S, IsFiniteSet(S), \A a, b, c \in S : a = b \/ b = c \/ a = c
    PROVE  Cardinality(S) <= 2
<1>1. CASE S = {}
  BY <1>1, FS_EmptySet
<1>2. CASE S # {}
  <2>1. PICK x : x \in S
    BY <1>2
  <2>. DEFINE R == S \ {x}
  <2>2. IsFiniteSet(R) /\ Cardinality(R) = Cardinality(S) - 1 /\ Cardinality(S) \in Nat
    BY <2>1, FS_RemoveElement, FS_CardinalityType
  <2>3. \A a, b \in R : a = b
    BY <2>1
  <2>. HIDE DEF R
  <2>4. Cardinality(R) <= 1
    BY <2>2, <2>3, FewElements
  <2>. QED BY <2>2, <2>4
<1>. QED BY <1>1, <1>2

\* Whatever its processes do at the same time, give up or leave behind, a seed
\* owns at most one note that is worth less than the fee; only the split of a
\* negative withdrawal leaves a second one, and never a third.
THEOREM DustIsRare == ClientSpec => []FewDust
<1>1. ClientInv => FewDust
  <2>. SUFFICES ASSUME ClientInv, NEW p \in Procs
                PROVE  Cardinality(dust(p)) <= (IF Halved(Seed[p]) THEN 2 ELSE 1)
    BY DEF FewDust
  <2>1. dust(p) = DustOf(Seed[p]) /\ Seed[p] \in Keys
    BY KeysArePrivate DEF DustOf, dust, own
  <2>2. IsFiniteSet(dust(p))
    <3>1. dust(p) \in SUBSET Unspent /\ IsFiniteSet(Unspent)
      BY DEF ClientInv, dust
    <3>. QED BY <3>1, FS_Subset
  <2>3. CASE Halved(Seed[p])
    <3>1. \A a, b, c \in dust(p) : a = b \/ b = c \/ a = c
      BY <2>1 DEF ClientInv, TwoDust
    <3>. QED BY <2>2, <2>3, <3>1, TwoElements
  <2>4. CASE ~Halved(Seed[p])
    <3>1. \A a, b \in dust(p) : a = b
      BY <2>1, <2>4 DEF ClientInv, OneDust
    <3>. QED BY <2>2, <2>4, <3>1, FewElements
  <2>. QED BY <2>3, <2>4
<1>. QED BY <1>1, ClientInductive, PTL

\* Two assets of a round of collect() pay its fee, whatever the process's
\* knowledge of them, unless a negative withdrawal has split the seed's note.
LEMMA RoundsPay == ClientInv => CollectGoesOn
<1>. SUFFICES ASSUME ClientInv, NEW p \in Procs, NEW a \in todo[p], NEW b \in todo[p], a # b,
                     ~Halved(Seed[p])
              PROVE  a.balance + b.balance >= fee
  BY DEF CollectGoesOn
<1>1. ~(a.balance < fee /\ b.balance < fee)
  BY DEF ClientInv, ProcInv
<1>2. a \in Notes /\ b \in Notes
  BY DEF ClientInv, ClientTypeOK
<1>3. a.balance \in Nat /\ b.balance \in Nat /\ fee \in Nat
  BY <1>2, NumbersAssumption DEF Notes, Candidates, Field, fee
<1>. QED BY <1>1, <1>3

\* Nothing but the split of a negative withdrawal leads a collect() to the
\* assertion "out_utxo is negative".
THEOREM OnlyHalvingStopsCollect == ClientSpec => []CollectGoesOn
BY RoundsPay, ClientInductive, PTL

\* That assertion never stops a collect() while nobody asks for a withdrawal of
\* a negative balance.
THEOREM OutputsAreNatural ==
    (\A r \in Requests : r.command = "WITHDRAWAL" => r.balance >= 0) /\ ClientSpec
        => []NoNegativeOutput
<1>. DEFINE Positive == \A r \in Requests : r.command = "WITHDRAWAL" => r.balance >= 0
<1>1. Positive /\ CollectGoesOn => NoNegativeOutput
  <2>1. Requests \subseteq Commands
    BY ClientAssumption DEF Commands
  <2>2. Positive => \A k : ~Halved(k)
    BY <2>1 DEF Halved, Commands
  <2>. QED BY <2>2 DEF CollectGoesOn, NoNegativeOutput
<1>2. Positive => Positive'
  OBVIOUS
<1>. HIDE DEF Positive
<1>3. Positive /\ ClientSpec => []NoNegativeOutput
  BY <1>1, <1>2, OnlyHalvingStopsCollect, PTL
<1>. QED BY <1>3 DEF Positive

\* A withdrawal that is mined pays exactly the balance of the command line.
THEOREM WithdrawalsPayTheRequest == ClientSpec => PaysWhatWasAsked
<1>. DEFINE A == \A p \in Procs :
                   (MineOwn(p) /\ pending[p].call = "withdrawal") =>
                       funds'[payer] = funds[payer] + job[p].balance
<1>1. IInv /\ ClientInv /\ [ClientNext]_allVars => [A]_allVars
  <2>. SUFFICES ASSUME IInv, ClientInv, NEW p \in Procs, MineOwn(p), pending[p].call = "withdrawal"
                PROVE  funds'[payer] = funds[payer] + job[p].balance
    OBVIOUS
  <2>. DEFINE tx == pending[p]
              in == tx.in[1]
  <2>1. tx # None /\ Mined(tx) /\ tx \in Transactions /\ tx \in Pending
    <3>1. pending \in [Procs -> Transactions \cup {None}]
      BY DEF ClientInv, ClientTypeOK
    <3>. QED BY <3>1 DEF MineOwn, Pending, Values
  <2>2. in.balance = job[p].balance + fee /\ job[p] \in Commands
    BY <2>1 DEF ClientInv, PaysInv, JobInv
  <2>3. in \in Notes
    <3>1. IsWithdrawal(tx)
      BY <2>1 DEF ClientInv, TxInv, IsDeposit, IsTransfer
    <3>2. tx.in \in Seq(Notes)
      BY <2>1 DEF Transactions
    <3>. QED BY <3>1, <3>2, ShortSeq DEF IsWithdrawal
  <2>4. withdrawal(this, InRing(tx.in), in, tx.key, payer, fee)
    BY <2>1 DEF Mined
  <2>. HIDE DEF in
  <2>5. /\ toInt(in.balance) >= fee
        /\ Settle(this, Moved(this, payer, toInt(in.balance) - fee), fee)
    BY <2>4 DEF withdrawal
  <2>6. in.balance \in Nat /\ in.balance < BalanceLimit /\ BalanceLimit \in Nat /\ fee \in Nat
    BY <2>3, NumbersAssumption DEF Notes, Candidates, Field, Num2Bits64, fee
  <2>7. toInt(in.balance) = in.balance
    BY <2>5, <2>6 DEF toInt
  <2>8. payer \in Accounts /\ payer # this /\ funds[payer] \in Int
    BY ClientAssumption DEF IInv, TypeOK
  <2>9. job[p].balance \in Int
    BY <2>2 DEF Commands
  <2>. DEFINE amount == toInt(in.balance) - fee
  <2>10. amount = job[p].balance
    BY <2>2, <2>6, <2>7, <2>9
  <2>11. funds'[payer] = funds[payer] + amount - 0
    BY <2>5, <2>8 DEF Settle, Moved
  <2>. HIDE DEF amount
  <2>. QED BY <2>8, <2>9, <2>10, <2>11
<1>. QED BY <1>1, ClientInductive, PTL DEF ClientSpec, PaysWhatWasAsked

-----------------------------------------------------------------------------
\* While every process has a seed of its own.
SeedsApart == \A p, q \in Procs : Seed[p] = Seed[q] => p = q

\* Secrets that are drawn now are those of no message and of no transaction.
NewSecrets(S) == \A s \in S : \E e \in Unseen : s = Hash253(e)

LEMMA NewSecretsApart ==
    ASSUME NEW S, NewSecrets(S)
    PROVE  /\ \A n \in Logged : n.secret \notin S
           /\ \A t \in Pending : SecretsOf(t) \cap S = {}
<1>1. ASSUME NEW s \in S, NEW n \in Logged PROVE n.secret # s
  <2>1. PICK e \in Unseen : s = Hash253(e)
    BY DEF NewSecrets
  <2>. QED BY <2>1 DEF Unseen, Seen, Logged
<1>2. ASSUME NEW s \in S, NEW t \in Pending, NEW n \in Values(t.out) PROVE n.secret # s
  <2>1. PICK e \in Unseen : s = Hash253(e)
    BY DEF NewSecrets
  <2>. QED BY <2>1 DEF Unseen, Seen
<1>. QED BY <1>1, <1>2 DEF SecretsOf

LEMMA DepositDraws ==
    ASSUME CanDraw(1), NEW balance, NEW pubkey
    PROVE  NewSecrets(SecretsOf(depositTx(balance, pubkey)))
<1>. DEFINE tx == depositTx(balance, pubkey)
<1>1. Values(tx.out) = {utxoCompute(balance, pubkey, 1)}
  <2>1. tx.out = <<utxoCompute(balance, pubkey, 1)>>
    BY DEF depositTx
  <2>. QED BY <2>1 DEF Values
<1>. HIDE DEF tx
<1>2. SecretsOf(tx) = {Hash253(Drawn(1))}
  BY <1>1 DEF SecretsOf, utxoCompute
<1>3. Drawn(1) \in Unseen
  BY DrawnType
<1>. QED BY <1>2, <1>3 DEF NewSecrets, tx

LEMMA TransferDraws ==
    ASSUME CanDraw(3), NEW p, NEW a, NEW b, NEW x, NEW pubkey, NEW change
    PROVE  NewSecrets(SecretsOf(Transferred(p, a, b, x, pubkey, change)))
<1>. DEFINE tx == Transferred(p, a, b, x, pubkey, change)
            one == utxoCompute(x, pubkey, 1)
            two == utxoCompute(change, own(p), 2)
<1>1. Values(tx.out) \subseteq {one, two}
  <2>1. tx.out = <<one, two>>
    BY DEF Transferred
  <2>. HIDE DEF one, two, tx
  <2>. QED BY <2>1 DEF Values
<1>2. one.secret = Hash253(Drawn(1)) /\ two.secret = Hash253(Drawn(2))
  BY DEF utxoCompute
<1>. HIDE DEF tx, one, two
<1>3. SecretsOf(tx) \subseteq {Hash253(Drawn(1)), Hash253(Drawn(2))}
  BY <1>1, <1>2 DEF SecretsOf
<1>4. Drawn(1) \in Unseen /\ Drawn(2) \in Unseen
  BY DrawnType
<1>. QED BY <1>3, <1>4 DEF NewSecrets, tx

LEMMA WithdrawalDraws ==
    ASSUME NEW p, NEW a
    PROVE  SecretsOf(withdrawalTx(p, a)) = {}
BY DEF withdrawalTx, SecretsOf, Values

\* The secrets of pending transactions stay fresh: when one is broadcast, ...
LEMMA FreshThen ==
    ASSUME \A t \in Pending' : \A n \in Logged' : n.secret \notin SecretsOf(t),
           \A q, r \in Procs : pending'[q] # None /\ pending'[r] # None /\ q # r =>
              SecretsOf(pending'[q]) \cap SecretsOf(pending'[r]) = {},
           \A q \in Procs, t \in orphans' : pending'[q] # None =>
              SecretsOf(pending'[q]) \cap SecretsOf(t) = {},
           \A t, u \in orphans' : t # u => SecretsOf(t) \cap SecretsOf(u) = {}
    PROVE  FreshPending'
BY DEF FreshPending, SecretsOf, Values

LEMMA FreshBroadcast ==
    ASSUME FreshPending, ClientTypeOK, NEW p \in Procs, NEW tx \in Transactions,
           pending[p] = None, pending' = [pending EXCEPT ![p] = tx], orphans' = orphans, M' = M,
           NewSecrets(SecretsOf(tx))
    PROVE  FreshPending'
<1>1. /\ \A n \in Logged : n.secret \notin SecretsOf(tx)
      /\ \A t \in Pending : SecretsOf(t) \cap SecretsOf(tx) = {}
  BY NewSecretsApart
<1>2. Logged' = Logged
  BY DEF Logged, Values
<1>3. \A t : SecretsOf(t)' = SecretsOf(t)
  BY DEF SecretsOf, Values
<1>4. /\ pending \in [Procs -> Transactions \cup {None}] /\ orphans \subseteq Transactions
      /\ pending'[p] = tx /\ \A q \in Procs \ {p} : pending'[q] = pending[q]
      /\ DOMAIN pending' = Procs
  BY DEF ClientTypeOK
<1>5. /\ \A q \in Procs : pending[q] # None => pending[q] \in Pending
      /\ \A t \in orphans : t \in Pending
  BY <1>4, NoneAssumption DEF Pending, Values
<1>6. \A t \in Pending' : t \in Pending \/ t = tx
  BY <1>4, <1>5 DEF Pending, Values
<1>7. \A t \in Pending' : \A n \in Logged' : n.secret \notin SecretsOf(t)
  BY <1>1, <1>2, <1>6 DEF FreshPending
<1>8. \A q, r \in Procs : pending'[q] # None /\ pending'[r] # None /\ q # r =>
         SecretsOf(pending'[q]) \cap SecretsOf(pending'[r]) = {}
  <2>1. TAKE q, r \in Procs
  <2>2. CASE q = p /\ r # p
    BY <1>1, <1>4, <1>5, <2>2
  <2>3. CASE r = p /\ q # p
    BY <1>1, <1>4, <1>5, <2>3
  <2>4. CASE q # p /\ r # p
    BY <1>4, <2>4 DEF FreshPending
  <2>. QED BY <2>2, <2>3, <2>4
<1>9. \A q \in Procs, t \in orphans' : pending'[q] # None =>
         SecretsOf(pending'[q]) \cap SecretsOf(t) = {}
  <2>1. TAKE q \in Procs, t \in orphans'
  <2>2. CASE q = p
    BY <1>1, <1>4, <1>5, <2>2
  <2>3. CASE q # p
    BY <1>4, <2>3 DEF FreshPending
  <2>. QED BY <2>2, <2>3
<1>10. \A t, u \in orphans' : t # u => SecretsOf(t) \cap SecretsOf(u) = {}
  BY DEF FreshPending
<1>. QED BY <1>7, <1>8, <1>9, <1>10, FreshThen

\* ... one is mined, ...
LEMMA FreshMined ==
    ASSUME FreshPending, IInv, ClientTypeOK, NEW tx, NEW X, Effect(tx, X),
           DOMAIN pending' = Procs, \A q \in Procs : pending'[q] \in {pending[q], None},
           orphans' \subseteq orphans,
           \A t \in Pending' : SecretsOf(t) \cap SecretsOf(tx) = {}
    PROVE  FreshPending'
<1>1. Logged' \subseteq Logged \cup Values(tx.out)
  BY DEF Logged, Effect, Values
<1>2. Pending' \subseteq Pending
  BY DEF Pending, Values, ClientTypeOK
<1>3. \A t \in Pending' : \A n \in Logged' : n.secret \notin SecretsOf(t)
  BY <1>1, <1>2 DEF FreshPending, SecretsOf
<1>4. \A q, r \in Procs : pending'[q] # None /\ pending'[r] # None /\ q # r =>
         SecretsOf(pending'[q]) \cap SecretsOf(pending'[r]) = {}
  <2>1. TAKE q, r \in Procs
  <2>. QED BY DEF FreshPending
<1>5. \A q \in Procs, t \in orphans' : pending'[q] # None =>
         SecretsOf(pending'[q]) \cap SecretsOf(t) = {}
  <2>1. TAKE q \in Procs, t \in orphans'
  <2>. QED BY DEF FreshPending
<1>6. \A t, u \in orphans' : t # u => SecretsOf(t) \cap SecretsOf(u) = {}
  BY DEF FreshPending
<1>. QED BY <1>3, <1>4, <1>5, <1>6, FreshThen

\* ... one is left behind.
LEMMA FreshFail ==
    ASSUME FreshPending, ClientTypeOK, NEW p \in Procs, M' = M,
           pending' = [pending EXCEPT ![p] = None],
           orphans' \subseteq orphans \cup ({pending[p]} \ {None})
    PROVE  FreshPending'
<1>1. Logged' = Logged
  BY DEF Logged, Values
<1>2. /\ pending'[p] = None /\ \A q \in Procs \ {p} : pending'[q] = pending[q]
      /\ DOMAIN pending' = Procs /\ DOMAIN pending = Procs
  BY DEF ClientTypeOK
<1>3. Pending' \subseteq Pending
  BY <1>2 DEF Pending, Values
<1>4. \A t \in Pending' : \A n \in Logged' : n.secret \notin SecretsOf(t)
  BY <1>1, <1>3 DEF FreshPending
<1>5. \A q, r \in Procs : pending'[q] # None /\ pending'[r] # None /\ q # r =>
         SecretsOf(pending'[q]) \cap SecretsOf(pending'[r]) = {}
  BY <1>2 DEF FreshPending
<1>6. \A q \in Procs, t \in orphans' : pending'[q] # None =>
         SecretsOf(pending'[q]) \cap SecretsOf(t) = {}
  <2>1. TAKE q \in Procs, t \in orphans'
  <2>2. CASE t \in orphans
    BY <1>2, <2>2 DEF FreshPending
  <2>3. CASE t = pending[p] /\ pending[p] # None
    BY <1>2, <2>3 DEF FreshPending
  <2>. QED BY <2>2, <2>3
<1>7. \A t, u \in orphans' : t # u => SecretsOf(t) \cap SecretsOf(u) = {}
  <2>1. TAKE t, u \in orphans'
  <2>2. CASE t \in orphans /\ u \in orphans
    BY <2>2 DEF FreshPending
  <2>3. CASE t = pending[p] /\ pending[p] # None /\ u \in orphans
    BY <2>3 DEF FreshPending
  <2>4. CASE u = pending[p] /\ pending[p] # None /\ t \in orphans
    BY <2>4 DEF FreshPending
  <2>. QED BY <2>2, <2>3, <2>4
<1>. QED BY <1>4, <1>5, <1>6, <1>7, FreshThen

\* A note that is made with a fresh secret has not been spent.
LEMMA FreshIsUnspent ==
    ASSUME IInv, NEW tx \in Transactions, TxInv(tx), NEW X, Effect(tx, X),
           NEW k \in PrivKeys, NEW a \in Values(tx.out), a.pubkey = PubKey(k),
           \A n \in Logged : n.secret # a.secret
    PROVE  a \in Unspent'
<1>1. /\ a \in Notes /\ UTXOHasher(a) \in U' /\ a.secret \in Secrets
      /\ N' = N \cup {nullifierOf(n) : n \in Values(tx.in)} \cup X
  BY NoteType DEF Effect
<1>2. NullifierOf(a) = {Compress(k, a.secret)}
  BY <1>1, OneNullifier DEF Compressor
<1>3. ASSUME NEW n \in Notes, n \in Logged, NEW l \in PrivKeys
      PROVE  Compress(l, n.secret) # Compress(k, a.secret)
  BY <1>1, <1>3, NoteType, CompressInjective
<1>4. ASSUME NEW e \in Entropies, NEW l \in PrivKeys
      PROVE  Compress(l, e) # Compress(k, a.secret)
  BY <1>1, CompressInjective, EntropiesAreNotSecrets
<1>5. Compress(k, a.secret) \notin N
  <2>. SUFFICES ASSUME Compress(k, a.secret) \in N PROVE FALSE
    OBVIOUS
  <2>0. PICK i \in DOMAIN M : Compress(k, a.secret) \in Values(M[i].nullifiers)
    BY DEF IInv, LogIsLedger
  <2>1. PICK r \in DOMAIN M[i].nullifiers : M[i].nullifiers[r] = Compress(k, a.secret)
    BY <2>0 DEF Values
  <2>2. CASE \E j \in DOMAIN M : \E q \in DOMAIN M[j].notes :
               M[i].nullifiers[r] \in NullifierOf(M[j].notes[q])
    <3>0. PICK j \in DOMAIN M : \E q \in DOMAIN M[j].notes :
             M[i].nullifiers[r] \in NullifierOf(M[j].notes[q])
      BY <2>2
    <3>1. PICK q \in DOMAIN M[j].notes : M[i].nullifiers[r] \in NullifierOf(M[j].notes[q])
      BY <3>0
    <3>2. M[j].notes[q] \in Logged
      BY DEF Logged, Values
    <3>3. M[j].notes[q] \in Notes
      BY DEF IInv, TypeOK, Messages
    <3>4. \E l \in PrivKeys : M[i].nullifiers[r] = Compress(l, M[j].notes[q].secret)
      BY <3>1 DEF NullifierOf
    <3>. QED BY <1>3, <2>1, <3>2, <3>3, <3>4
  <2>3. CASE \E l \in PrivKeys, e \in Entropies : M[i].nullifiers[r] = Compress(l, e)
    BY <1>4, <2>1, <2>3
  <2>. QED BY <2>2, <2>3 DEF IInv, SpentWasCreated
<1>6. \A n \in Values(tx.in) : nullifierOf(n) # Compress(k, a.secret)
  <2>. SUFFICES ASSUME NEW n \in Values(tx.in) PROVE nullifierOf(n) # Compress(k, a.secret)
    OBVIOUS
  <2>1. n \in Notes /\ UTXOHasher(n) \in U
    BY DEF Effect, TxInv
  <2>2. n \in Logged
    BY <2>1, Announced DEF Logged
  <2>3. PICK l \in PrivKeys : n.pubkey = PubKey(l)
    BY <2>1, NoteType DEF PubKeys
  <2>4. nullifierOf(n) = Compress(l, n.secret)
    BY <2>3, OwnNullifier
  <2>. QED BY <1>3, <2>1, <2>2, <2>4
<1>7. Compress(k, a.secret) \notin X
  BY <1>4, KeysArePrivate DEF Effect
<1>8. NullifierOf(a) \cap N' = {} /\ NullifierOf(a)' = NullifierOf(a)
  BY <1>1, <1>2, <1>5, <1>6, <1>7 DEF NullifierOf
<1>. QED BY <1>1, <1>8 DEF Unspent

-----------------------------------------------------------------------------
\* The steps of one process leave the others alone.
LEMMA StepOthers ==
    ASSUME ClientTypeOK, NEW p \in Procs, Start(p) \/ Proceed(p) \/ Fail(p)
    PROVE  OthersKept(p) /\ UNCHANGED vars
<1>1. /\ DOMAIN at = Procs /\ DOMAIN job = Procs /\ DOMAIN known = Procs
      /\ DOMAIN todo = Procs /\ DOMAIN pending = Procs
  BY DEF ClientTypeOK
<1>. USE DEF OthersKept, Goto
<1>2. CASE Start(p)
  BY <1>1, <1>2 DEF Start
<1>3. CASE DepositUtxo(p)
  BY <1>1, <1>3 DEF DepositUtxo, Broadcast
<1>4. CASE Collect(p)
  BY <1>1, <1>4 DEF Collect, Exit
<1>5. CASE Round(p)
  BY <1>1, <1>5 DEF Round, Exit, Broadcast
<1>6. CASE AbstractTransfer(p)
  BY <1>1, <1>6 DEF AbstractTransfer, Exit, Broadcast
<1>7. CASE SyncAgain(p)
  BY <1>1, <1>7 DEF SyncAgain, Exit
<1>8. CASE WithdrawPart(p)
  BY <1>1, <1>8 DEF WithdrawPart, Exit, Broadcast
<1>9. CASE Withdrawn(p)
  BY <1>1, <1>9 DEF Withdrawn
<1>10. CASE Fail(p)
  BY <1>1, <1>10 DEF Fail, Exit
<1>. QED BY <1>2, <1>3, <1>4, <1>5, <1>6, <1>7, <1>8, <1>9, <1>10 DEF Proceed

\* What a process knows of its part, while others go on ...
LEMMA AloneKept ==
    ASSUME UNCHANGED vars, NEW q \in Procs, AloneInv(q),
           at'[q] = at[q], job'[q] = job[q], known'[q] = known[q], pending'[q] = pending[q],
           \A t \in orphans' : t \in orphans \/ t.call = "deposit" \/ t.key # Seed[q]
    PROVE  AloneInv(q)'
<1>1. U' = U /\ N' = N /\ MESSAGE_NUM' = MESSAGE_NUM /\ M' = M
  BY DEF vars
<1>2. Left(q)' \subseteq Left(q)
  BY DEF Left
<1>3. assets(q)' = assets(q) /\ Unspent' = Unspent
  BY <1>1 DEF assets, PrefixAssets, Prefix, PrefixNullifiers, Unspent, NullifierOf
<1>4. parts(q)' = parts(q) /\ \A a : IsPart(q, a)' = IsPart(q, a)
  BY <1>3 DEF parts, IsPart, splitBalance, own
<1>. QED BY <1>2, <1>3, <1>4 DEF AloneInv, IsPart, splitBalance, own, Values

\* ... and while other transactions are mined, which spend none of its notes.
LEMMA AssetsKept ==
    ASSUME IInv, NEW tx, NEW X, Effect(tx, X), NEW q \in Procs, known'[q] = known[q],
           known[q] \in Nat, known[q] <= MESSAGE_NUM
    PROVE  assets(q)' = assets(q)
<1>1. PICK n \in Nat : n = known[q]
  OBVIOUS
<1>2. PrefixAssets(Seed[q], n)' = PrefixAssets(Seed[q], n)
  BY <1>1, PrefixKept
<1>3. assets(q) = PrefixAssets(Seed[q], n)
  BY <1>1 DEF assets
<1>4. assets(q)' = PrefixAssets(Seed[q], n)'
  BY <1>1 DEF assets, PrefixAssets, Prefix, PrefixNullifiers
<1>. QED BY <1>2, <1>3, <1>4

LEMMA PartKept ==
    ASSUME IInv, NEW tx \in Transactions, TxInv(tx), NEW X, Effect(tx, X), NEW k \in PrivKeys,
           tx.call = "deposit" \/ tx.key # k,
           NEW a \in Unspent, a.pubkey = PubKey(k)
    PROVE  a \in Unspent'
<1>1. /\ a \in Notes /\ a.secret \in Secrets /\ UTXOHasher(a) \in U' /\ NullifierOf(a) \cap N = {}
      /\ N' = N \cup {nullifierOf(n) : n \in Values(tx.in)} \cup X
  BY NoteType DEF Unspent, Effect
<1>2. NullifierOf(a) = {Compress(k, a.secret)}
  BY <1>1, OneNullifier DEF Compressor
<1>3. Compress(k, a.secret) \notin X
  BY <1>1, KeysArePrivate, CompressInjective, EntropiesAreNotSecrets DEF Effect
<1>4. \A n \in Values(tx.in) : nullifierOf(n) # Compress(k, a.secret)
  <2>. SUFFICES ASSUME NEW n \in Values(tx.in) PROVE nullifierOf(n) # Compress(k, a.secret)
    OBVIOUS
  <2>1. n \in Notes /\ tx.in \in Seq(Notes)
    BY DEF Effect, Transactions
  <2>2. tx.key \in PrivKeys /\ n.pubkey = PubKey(tx.key) /\ tx.call # "deposit"
    <3>1. CASE IsDeposit(tx)
      BY <2>1, <3>1, ShortSeq DEF IsDeposit
    <3>2. CASE IsWithdrawal(tx)
      BY <2>1, <3>2, ShortSeq, KeysArePrivate DEF IsWithdrawal
    <3>3. CASE IsTransfer(tx)
      BY <2>1, <3>3, ShortSeq, KeysArePrivate DEF IsTransfer
    <3>. QED BY <3>1, <3>2, <3>3 DEF TxInv
  <2>3. nullifierOf(n) = Compress(tx.key, n.secret) /\ n.secret \in Secrets
    BY <2>1, <2>2, OwnNullifier, NoteType
  <2>. QED BY <1>1, <2>2, <2>3, CompressInjective
<1>5. NullifierOf(a)' = NullifierOf(a)
  BY DEF NullifierOf
<1>. QED BY <1>1, <1>2, <1>3, <1>4, <1>5 DEF Unspent

LEMMA AloneMined ==
    ASSUME IInv, NEW tx \in Transactions, TxInv(tx), NEW X, Effect(tx, X), NEW q \in Procs, AloneInv(q),
           at'[q] = at[q], job'[q] = job[q], known'[q] = known[q], pending'[q] = pending[q],
           orphans' \subseteq orphans, known[q] \in Nat, known[q] <= MESSAGE_NUM,
           tx.call = "deposit" \/ tx.key # Seed[q] \/ tx \in Left(q)
    PROVE  AloneInv(q)'
<1>1. Left(q)' \subseteq Left(q)
  BY DEF Left
<1>2. assets(q)' = assets(q)
  BY AssetsKept
<1>3. parts(q)' = parts(q) /\ \A a : IsPart(q, a)' = IsPart(q, a)
  BY <1>2 DEF parts, IsPart, splitBalance, own
<1>4. ASSUME at[q] = "syncData", pending[q] = None
      PROVE  /\ Left(q)' = {}
             /\ job'[q].command = "WITHDRAWAL" => \E a \in Unspent' : IsPart(q, a)'
  <2>1. Left(q) = {} /\ (job[q].command = "WITHDRAWAL" => \E a \in Unspent : IsPart(q, a))
    BY <1>4 DEF AloneInv
  <2>2. ASSUME NEW a \in Unspent, IsPart(q, a)
        PROVE  a \in Unspent'
    BY <2>1, <2>2, PartKept, KeysArePrivate DEF IsPart, own
  <2>. QED BY <1>1, <1>3, <2>1, <2>2
<1>. QED BY <1>1, <1>2, <1>3, <1>4 DEF AloneInv, IsPart, splitBalance, own, Values

\* The split is mined: what was left behind of the one asset cannot be mined
\* any more, and the part is there.
LEMMA AloneOwn ==
    ASSUME IInv, ClientInv, FreshPending, NEW p \in Procs, AloneInv(p), pending[p] # None,
           NEW X, Effect(pending[p], X),
           at'[p] = at[p], job'[p] = job[p], known'[p] = known[p], pending'[p] = None,
           orphans' \subseteq {t \in orphans : Minable(t, N')}
    PROVE  AloneInv(p)'
<1>1. PICK tx \in Transactions : tx = pending[p]
  BY DEF ClientInv, ClientTypeOK
<1>2. TxInv(tx) /\ Effect(tx, X) /\ tx \in Pending /\ known[p] \in Nat /\ known[p] <= MESSAGE_NUM
  BY <1>1 DEF ClientInv, ClientTypeOK, ProcInv, Pending, Values
<1>3. Left(p)' \subseteq Left(p)
  BY DEF Left
<1>4. assets(p)' = assets(p)
  BY <1>2, AssetsKept
<1>5. parts(p)' = parts(p) /\ \A a : IsPart(p, a)' = IsPart(p, a)
  BY <1>4 DEF parts, IsPart, splitBalance, own
<1>6. ASSUME at[p] = "syncData"
      PROVE  /\ Left(p)' = {}
             /\ job'[p].command = "WITHDRAWAL" => \E a \in Unspent' : IsPart(p, a)'
  <2>1. /\ tx.call = "transfer"
        /\ job[p].command = "WITHDRAWAL" => IsPart(p, tx.out[1])
        /\ \A t \in Left(p) : Values(t.in) \subseteq {tx.in[1]}
    BY <1>1, <1>6 DEF AloneInv
  <2>2. IsTransfer(tx) /\ tx.in \in Seq(Notes) /\ tx.out \in Seq(Drafted)
    BY <1>2, <2>1 DEF TxInv, IsDeposit, IsWithdrawal, Transactions
  <2>3. tx.in[1] \in Values(tx.in) /\ tx.out[1] \in Values(tx.out)
    BY <2>2, ShortSeq DEF IsTransfer
  <2>4. nullifierOf(tx.in[1]) \in N'
    BY <1>2, <2>3 DEF Effect
  <2>5. ASSUME NEW t \in Left(p)' PROVE FALSE
    <3>1. t \in orphans /\ t \in Left(p) /\ Minable(t, N') /\ t.call # "deposit"
      BY <1>3 DEF Left
    <3>2. t \in Transactions /\ TxInv(t)
      BY <3>1, NoneAssumption DEF ClientInv, ClientTypeOK, Pending
    <3>3. t.in[1] \in Values(t.in)
      <4>1. t.in \in Seq(Notes) /\ Len(t.in) \in {1, 2}
        BY <3>1, <3>2 DEF Transactions, TxInv, IsDeposit, IsWithdrawal, IsTransfer
      <4>. QED BY <4>1, ShortSeq
    <3>. QED BY <2>1, <2>4, <3>1, <3>3 DEF Minable
  <2>6. ASSUME job[p].command = "WITHDRAWAL"
        PROVE  tx.out[1] \in Unspent'
    <3>1. tx.out[1].pubkey = PubKey(Seed[p]) /\ Seed[p] \in PrivKeys
      BY <2>1, <2>6, KeysArePrivate DEF IsPart, own
    <3>2. \A n \in Logged : n.secret # tx.out[1].secret
      BY <1>2, <2>3 DEF FreshPending, SecretsOf
    <3>. QED BY <1>2, <2>3, <3>1, <3>2, FreshIsUnspent
  <2>. QED BY <1>5, <2>1, <2>5, <2>6
<1>. QED BY <1>3, <1>4, <1>5, <1>6 DEF AloneInv, IsPart, splitBalance, own, Values

-----------------------------------------------------------------------------
\* Where a process stands at no place that promises anything of its part.
LEMMA AloneElsewhere ==
    ASSUME NEW p \in Procs, at'[p] \notin {"abstractTransfer", "syncData", "withdrawal"},
           pending'[p] # None => pending'[p].call = "deposit" \/ pending'[p].key = Seed[p]
    PROVE  AloneInv(p)'
BY DEF AloneInv

\* The wallet of a process that has just read the whole log holds what is left
\* behind of its transactions, too.
LEMMA LeftAreAssets ==
    ASSUME IInv, PartsInv, NEW p \in Procs, NEW t \in Left(p), NEW n \in Values(t.in)
    PROVE  n \in PrefixAssets(Seed[p], MESSAGE_NUM)
<1>1. t \in Transactions /\ TxInv(t) /\ Minable(t, N) /\ t.call # "deposit" /\ t.key = Seed[p]
  BY NoneAssumption DEF Left, PartsInv, ClientInv, ClientTypeOK, Pending
<1>2. t.in \in Seq(Notes) /\ Len(t.in) \in {1, 2}
  BY <1>1 DEF Transactions, TxInv, IsDeposit, IsWithdrawal, IsTransfer
<1>3. n \in Notes /\ n.pubkey = PubKey(t.key)
  <2>1. \/ Len(t.in) = 1 /\ Values(t.in) = {t.in[1]} /\ t.in[1] \in Notes
        \/ Len(t.in) = 2 /\ Values(t.in) = {t.in[1], t.in[2]} /\ t.in[1] \in Notes /\ t.in[2] \in Notes
    BY <1>2, ShortSeq
  <2>. QED BY <1>1, <2>1 DEF TxInv, IsDeposit, IsWithdrawal, IsTransfer
<1>4. UTXOHasher(n) \in U /\ nullifierOf(n) \notin N
  BY <1>1 DEF TxInv, Minable
<1>5. n \in Unspent
  BY <1>1, <1>3, <1>4, OwnersNullifier, KeysArePrivate DEF Unspent
<1>. QED BY <1>1, <1>3, <1>5, CurrentAssets, KeysArePrivate

\* The steps of a process, as far as they concern its part.
LEMMA AloneOfBroadcast ==
    ASSUME PartsInv, UNCHANGED vars, NEW p \in Procs, NEW tx \in Transactions,
           pending[p] = None, pending' = [pending EXCEPT ![p] = tx], orphans' = orphans,
           NewSecrets(SecretsOf(tx))
    PROVE  FreshPending' /\ (\A t \in orphans' : Minable(t, N')) /\ pending'[p] = tx
<1>1. M' = M /\ N' = N
  BY DEF vars
<1>2. pending'[p] = tx
  BY DEF PartsInv, ClientInv, ClientTypeOK
<1>. QED BY <1>1, <1>2, FreshBroadcast DEF PartsInv, ClientInv

LEMMA FreshKept ==
    ASSUME PartsInv, UNCHANGED vars, UNCHANGED <<pending, orphans>>
    PROVE  FreshPending' /\ (\A t \in orphans' : Minable(t, N'))
<1>1. M' = M /\ N' = N /\ pending' = pending /\ orphans' = orphans
  BY DEF vars
<1>2. Logged' = Logged /\ Pending' = Pending
  BY <1>1 DEF Logged, Pending, Values
<1>. QED BY <1>1, <1>2, FreshThen DEF PartsInv, FreshPending

\* The split: what was left behind can only spend the one asset it spends.
LEMMA AloneSplit ==
    ASSUME IInv, PartsInv, NEW p \in Procs, AbstractTransfer(p), UNCHANGED vars
    PROVE  AloneInv(p)' /\ FreshPending' /\ \A t \in orphans' : Minable(t, N')
<1>. DEFINE balance == splitBalance(job[p])
            pubkey  == IF job[p].command = "WITHDRAWAL" THEN own(p) ELSE job[p].pubkey
            enough  == {a \in assets(p) : a.balance >= balance + fee}
<1>1. /\ ClientTypeOK /\ JobInv(p) /\ ProcInv(p) /\ AloneInv(p)
      /\ DOMAIN at = Procs /\ DOMAIN pending = Procs
      /\ at[p] = "abstractTransfer" /\ pending[p] = None /\ orphans' = orphans
  BY DEF PartsInv, ClientInv, ClientTypeOK, AbstractTransfer, Running
<1>2. CASE enough = {} \/ balance < 0
  <2>1. UNCHANGED <<pending, orphans>> /\ at'[p] = "shell"
    BY <1>1, <1>2 DEF AbstractTransfer, Exit, Goto
  <2>. QED BY <1>1, <2>1, AloneElsewhere, FreshKept
<1>3. CASE ~(enough = {} \/ balance < 0)
  <2>1. PICK a \in enough :
           Broadcast(p, transferTx(p, <<a>>, << [balance |-> balance, pubkey |-> pubkey],
                                               [balance |-> a.balance - balance - fee, pubkey |-> own(p)] >>),
                     "syncData")
    BY <1>3 DEF AbstractTransfer
  <2>2. CanDraw(3) /\ job' = job
    BY <1>3 DEF AbstractTransfer
  <2>. DEFINE change == a.balance - balance - fee
              tx == Transferred(p, a, a, balance, pubkey, change)
  <2>3. Broadcast(p, tx, "syncData")
    <3>1. transferTx(p, <<a>>, << [balance |-> balance, pubkey |-> pubkey],
                                 [balance |-> change, pubkey |-> own(p)] >>) = tx
      <4>. HIDE DEF balance, pubkey, change
      <4>. QED BY SplitIs
    <3>. HIDE DEF tx
    <3>. QED BY <2>1, <3>1
  <2>4. /\ a \in assets(p) /\ a.balance >= balance + fee
        /\ a \in Notes /\ a.pubkey = own(p) /\ UTXOHasher(a) \in U
    BY AssetType, KeysArePrivate DEF assets, own
  <2>5. balance \in Nat /\ pubkey \in PubKeys
    <3>1. job[p] \in Commands /\ fee \in Nat
      BY <1>1, FeeType DEF JobInv
    <3>. QED BY <1>3, <3>1, KeysArePrivate DEF Commands, splitBalance, own, PubKeys
  <2>6. job[p].command = "WITHDRAWAL" => pubkey = own(p)
    OBVIOUS
  <2>7. change \in Nat
    <3>1. a.balance \in Int /\ fee \in Nat
      BY <2>4, NoteType, NumbersAssumption DEF fee
    <3>. HIDE DEF balance
    <3>. QED BY <2>4, <2>5, <3>1
  <2>. HIDE DEF pubkey, change
  <2>8. /\ tx \in Transactions /\ tx.call = "transfer" /\ tx.key = Seed[p]
        /\ tx.in[1] = a /\ tx.in[2] = a
        /\ tx.out[1].balance = balance /\ tx.out[1].pubkey = pubkey
    BY <2>2, <2>4, <2>5, <2>7, TransferredTx
  <2>9. NewSecrets(SecretsOf(tx))
    BY <2>2, TransferDraws
  <2>. HIDE DEF tx
  <2>10. pending' = [pending EXCEPT ![p] = tx] /\ at'[p] = "syncData"
    BY <1>1, <2>3 DEF Broadcast, Goto
  <2>11. FreshPending' /\ (\A t \in orphans' : Minable(t, N')) /\ pending'[p] = tx
    BY <1>1, <2>8, <2>9, <2>10, AloneOfBroadcast
  <2>12. \A t \in Left(p)' : Values(t.in) \subseteq {a}
    <3>1. assets(p) = {a}
      BY <1>1, <2>4 DEF ProcInv
    <3>. QED BY <1>1, <3>1 DEF AloneInv, Left
  <2>13. PICK t \in Transactions : t = tx
    BY <2>8
  <2>14. pending'[p] = t
    BY <2>11, <2>13
  <2>15. t.call = "transfer" /\ t.key = Seed[p] /\ t.in[1] = a /\ t.in[2] = a
    BY <2>8, <2>13
  <2>16. job'[p].command = "WITHDRAWAL" =>
            t.out[1].pubkey = own(p) /\ t.out[1].balance = splitBalance(job'[p])
    BY <2>2, <2>6, <2>8, <2>13
  <2>. HIDE DEF balance, enough
  <2>17. \A u \in Left(p)' : Values(u.in) \subseteq {t.in[1]}
    BY <2>12, <2>15
  <2>18. AloneInv(p)'
    BY <2>10, <2>14, <2>15, <2>16, <2>17, NoneAssumption
       DEF AloneInv, IsPart, splitBalance, own, Values
  <2>. QED BY <2>11, <2>18
<1>. QED BY <1>2, <1>3

LEMMA AloneStep ==
    ASSUME IInv, PartsInv, NEW p \in Procs, Start(p) \/ Proceed(p) \/ Fail(p), UNCHANGED vars
    PROVE  AloneInv(p)' /\ FreshPending' /\ \A t \in orphans' : Minable(t, N')
<1>1. /\ ClientTypeOK /\ JobInv(p) /\ ProcInv(p) /\ AloneInv(p)
      /\ DOMAIN at = Procs /\ DOMAIN pending = Procs /\ DOMAIN known = Procs
      /\ M' = M /\ N' = N /\ U' = U /\ MESSAGE_NUM' = MESSAGE_NUM
  BY DEF PartsInv, ClientInv, ClientTypeOK, vars
<1>2. CASE Start(p)
  <2>1. /\ UNCHANGED <<pending, orphans>>
        /\ at'[p] \notin {"abstractTransfer", "syncData", "withdrawal"}
    BY <1>1, <1>2 DEF Start, Goto
  <2>2. AloneInv(p)'
    BY <1>1, <2>1, AloneElsewhere DEF AloneInv
  <2>. QED BY <2>1, <2>2, FreshKept
<1>3. CASE DepositUtxo(p)
  <2>. DEFINE tx == depositTx(job[p].balance, job[p].pubkey)
  <2>1. /\ at[p] = "deposit" /\ pending[p] = None /\ CanDraw(1) /\ orphans' = orphans
        /\ pending' = [pending EXCEPT ![p] = tx] /\ at'[p] = "collect"
    BY <1>1, <1>3 DEF DepositUtxo, Running, Broadcast, Goto
  <2>2. job[p].balance \in Nat /\ job[p].balance >= fee /\ job[p].pubkey \in PubKeys
    BY <1>1, <2>1, FeeType DEF JobInv, Commands
  <2>3. tx \in Transactions /\ tx.call = "deposit" /\ NewSecrets(SecretsOf(tx))
    BY <2>1, <2>2, DepositTx, DepositDraws
  <2>. HIDE DEF tx
  <2>4. FreshPending' /\ (\A t \in orphans' : Minable(t, N')) /\ pending'[p] = tx
    BY <2>1, <2>3, AloneOfBroadcast
  <2>. QED BY <2>1, <2>3, <2>4, AloneElsewhere
<1>4. CASE Collect(p)
  <2>1. at[p] = "collect" /\ pending[p] = None /\ UNCHANGED <<pending, orphans>>
    BY <1>4 DEF Collect, Running
  <2>2. CASE at'[p] = "abstractTransfer"
    <3>1. known'[p] = MESSAGE_NUM
      BY <1>1, <1>4, <2>1, <2>2 DEF Collect, Goto, Exit
    <3>2. assets(p)' = PrefixAssets(Seed[p], MESSAGE_NUM)
      BY <1>1, <3>1 DEF assets, PrefixAssets, Prefix, PrefixNullifiers
    <3>3. \A t \in Left(p)' : Values(t.in) \subseteq assets(p)'
      BY <2>1, <3>2, LeftAreAssets DEF Left
    <3>. QED BY <2>1, <2>2, <3>3, FreshKept DEF AloneInv, Values
  <2>3. CASE at'[p] # "abstractTransfer"
    <3>1. at'[p] \in {"collect", "shell"}
      BY <1>1, <1>4, <2>1, <2>3 DEF Collect, Goto, Exit
    <3>. QED BY <2>1, <3>1, AloneElsewhere, FreshKept
  <2>. QED BY <2>2, <2>3
<1>5. CASE Round(p)
  <2>1. /\ at[p] = "collect" /\ pending[p] = None /\ orphans' = orphans
    BY <1>5 DEF Round, Running
  <2>2. CASE pending' = pending
    <3>1. at'[p] \in {"collect", "shell"}
      BY <1>1, <1>5, <2>1 DEF Round, Exit, Broadcast, Goto
    <3>. QED BY <2>1, <2>2, <3>1, AloneElsewhere, FreshKept
  <2>3. CASE pending' # pending
    <3>1. PICK a \in todo[p], b \in todo[p] :
             /\ CanDraw(3)
             /\ ~(a.balance + b.balance - fee < 0)
             /\ Broadcast(p, transferTx(p, <<a, b>>,
                                 << [balance |-> 0, pubkey |-> PubKey(Stranger)],
                                    [balance |-> a.balance + b.balance - fee, pubkey |-> own(p)] >>),
                          "collect")
      BY <1>5, <2>3 DEF Round
    <3>. DEFINE zero == 0
                rest == a.balance + b.balance - fee
                pubkey == PubKey(Stranger)
                tx == Transferred(p, a, b, zero, pubkey, rest)
    <3>2. transferTx(p, <<a, b>>, << [balance |-> zero, pubkey |-> pubkey],
                                    [balance |-> rest, pubkey |-> own(p)] >>) = tx
      <4>. HIDE DEF zero, rest, pubkey
      <4>. QED BY ONLY MergerIs
    <3>3. Broadcast(p, tx, "collect")
      BY <3>1, <3>2
    <3>4. /\ a \in Notes /\ a.pubkey = own(p) /\ UTXOHasher(a) \in U
          /\ b \in Notes /\ b.pubkey = own(p) /\ UTXOHasher(b) \in U
      BY <1>1 DEF ProcInv, ClientTypeOK
    <3>5. rest \in Nat /\ zero \in Nat /\ pubkey \in PubKeys
      BY <3>1, <3>4, NoteType, NumbersAssumption, ClientAssumption DEF PubKeys, fee
    <3>. HIDE DEF zero, rest, pubkey
    <3>6. tx \in Transactions /\ tx.key = Seed[p]
      BY <3>1, <3>4, <3>5, TransferredTx
    <3>7. NewSecrets(SecretsOf(tx))
      BY <3>1, TransferDraws
    <3>. HIDE DEF tx
    <3>8. pending' = [pending EXCEPT ![p] = tx] /\ at'[p] = "collect"
      BY <1>1, <3>3 DEF Broadcast, Goto
    <3>9. FreshPending' /\ (\A t \in orphans' : Minable(t, N')) /\ pending'[p] = tx
      BY <2>1, <3>6, <3>7, <3>8, AloneOfBroadcast
    <3>. QED BY <3>6, <3>8, <3>9, AloneElsewhere
  <2>. QED BY <2>2, <2>3
<1>6. CASE SyncAgain(p)
  <2>1. at[p] = "syncData" /\ pending[p] = None /\ UNCHANGED <<pending, orphans>>
    BY <1>6 DEF SyncAgain, Running
  <2>2. CASE job[p].command = "WITHDRAWAL"
    <3>1. known'[p] = MESSAGE_NUM /\ at'[p] = "withdrawal" /\ job' = job
      BY <1>1, <1>6, <2>2 DEF SyncAgain, Goto, synced
    <3>2. assets(p)' = PrefixAssets(Seed[p], MESSAGE_NUM)
      BY <1>1, <3>1 DEF assets, PrefixAssets, Prefix, PrefixNullifiers
    <3>3. PICK a \in Unspent : IsPart(p, a)
      BY <1>1, <2>1, <2>2 DEF AloneInv
    <3>4. a \in assets(p)'
      BY <3>2, <3>3, CurrentAssets, KeysArePrivate DEF IsPart, own
    <3>5. parts(p)' # {}
      BY <3>1, <3>3, <3>4 DEF parts, IsPart, splitBalance
    <3>6. AloneInv(p)'
      BY <2>1, <3>1, <3>5 DEF AloneInv
    <3>. QED BY <2>1, <3>6, FreshKept
  <2>3. CASE job[p].command # "WITHDRAWAL"
    <3>1. at'[p] = "shell"
      BY <1>1, <1>6, <2>3 DEF SyncAgain, Exit, Goto
    <3>. QED BY <2>1, <3>1, AloneElsewhere, FreshKept
  <2>. QED BY <2>2, <2>3
<1>7. CASE Withdrawn(p)
  <2>1. UNCHANGED <<pending, orphans>> /\ pending[p] = None /\ at'[p] = "collect"
    BY <1>1, <1>7 DEF Withdrawn, Running, Goto
  <2>. QED BY <2>1, AloneElsewhere, FreshKept
<1>8. CASE WithdrawPart(p)
  <2>1. /\ at[p] = "withdrawal" /\ pending[p] = None /\ orphans' = orphans
        /\ parts(p) # {}
    BY <1>1, <1>8 DEF WithdrawPart, Running, AloneInv
  <2>2. PICK a \in parts(p) : Broadcast(p, withdrawalTx(p, a), "lastCollect")
    BY <1>8, <2>1 DEF WithdrawPart
  <2>3. a \in Notes /\ a.pubkey = own(p) /\ UTXOHasher(a) \in U
    <3>1. a \in assets(p)
      BY DEF parts
    <3>. QED BY <3>1, AssetType, KeysArePrivate DEF assets, own
  <2>. DEFINE tx == withdrawalTx(p, a)
  <2>4. tx \in Transactions /\ tx.key = Seed[p]
    BY <2>3, WithdrawalTx DEF withdrawalTx
  <2>5. NewSecrets(SecretsOf(tx))
    BY WithdrawalDraws DEF NewSecrets
  <2>6. pending' = [pending EXCEPT ![p] = tx] /\ at'[p] = "lastCollect"
    BY <1>1, <2>2 DEF Broadcast, Goto
  <2>. HIDE DEF tx
  <2>7. FreshPending' /\ (\A t \in orphans' : Minable(t, N')) /\ pending'[p] = tx
    BY <2>1, <2>4, <2>5, <2>6, AloneOfBroadcast
  <2>. QED BY <2>4, <2>6, <2>7, AloneElsewhere
<1>9. CASE Fail(p)
  <2>1. /\ at'[p] = "shell" /\ pending' = [pending EXCEPT ![p] = None] /\ pending'[p] = None
        /\ orphans' \subseteq orphans \cup ({pending[p]} \ {None})
        /\ \A t \in orphans' : t \in orphans \/ Minable(t, N)
    BY <1>1, <1>9 DEF Fail, Exit, Goto
  <2>2. FreshPending'
    BY <1>1, <2>1, FreshFail DEF PartsInv
  <2>3. \A t \in orphans' : Minable(t, N')
    BY <1>1, <2>1 DEF PartsInv
  <2>. QED BY <2>1, <2>2, <2>3, AloneElsewhere
<1>10. CASE AbstractTransfer(p)
  BY <1>10, AloneSplit
<1>. QED BY <1>2, <1>3, <1>4, <1>5, <1>6, <1>7, <1>8, <1>9, <1>10 DEF Proceed

\* A process's steps keep what every process knows of its part ...
LEMMA PartsOfStep ==
    ASSUME SeedsApart, IInv, PartsInv, NEW p \in Procs, Start(p) \/ Proceed(p) \/ Fail(p)
    PROVE  /\ FreshPending'
           /\ \A t \in orphans' : Minable(t, N')
           /\ \A q \in Procs : AloneInv(q)'
<1>1. OthersKept(p) /\ UNCHANGED vars /\ ClientTypeOK
  BY StepOthers DEF PartsInv, ClientInv
<1>2. AloneInv(p)' /\ FreshPending' /\ \A t \in orphans' : Minable(t, N')
  BY <1>1, AloneStep
<1>3. \A t \in orphans' : t \in orphans \/ (t = pending[p] /\ pending[p] # None)
  <2>1. CASE Fail(p)
    BY <2>1 DEF Fail
  <2>2. CASE ~Fail(p)
    BY <1>1, <2>2 DEF Start, Proceed, DepositUtxo, Collect, Round, AbstractTransfer, SyncAgain,
                      WithdrawPart, Withdrawn
  <2>. QED BY <2>1, <2>2
<1>4. ASSUME NEW q \in Procs, q # p
      PROVE  AloneInv(q)'
  <2>1. Seed[q] # Seed[p]
    BY <1>4 DEF SeedsApart
  <2>2. AloneInv(q) /\ AloneInv(p)
    BY DEF PartsInv
  <2>3. \A t \in orphans' : t \in orphans \/ t.call = "deposit" \/ t.key # Seed[q]
    BY <1>3, <2>1, <2>2 DEF AloneInv
  <2>. QED BY <1>1, <1>4, <2>2, <2>3, AloneKept DEF OthersKept
<1>. QED BY <1>2, <1>4

\* ... and so does a block with what it waits for, ...
LEMMA PartsOfMineOwn ==
    ASSUME SeedsApart, IInv, PartsInv, NEW p \in Procs, MineOwn(p)
    PROVE  /\ FreshPending'
           /\ \A t \in orphans' : Minable(t, N')
           /\ \A q \in Procs : AloneInv(q)'
<1>1. /\ ClientInv /\ ClientTypeOK /\ FreshPending
      /\ \A q \in Procs : AloneInv(q) /\ known[q] \in Nat /\ known[q] <= MESSAGE_NUM
  BY DEF PartsInv, ClientInv, ClientTypeOK, ProcInv
<1>2. /\ pending[p] # None /\ Mined(pending[p]) /\ pending' = [pending EXCEPT ![p] = None]
      /\ orphans' = {t \in orphans : Minable(t, N')} /\ UNCHANGED <<at, job, known>>
  BY DEF MineOwn
<1>3. PICK tx \in Transactions : tx = pending[p]
  BY <1>1, <1>2 DEF ClientTypeOK
<1>4. TxInv(tx) /\ Mined(tx)
  BY <1>1, <1>2, <1>3 DEF ClientInv, ClientTypeOK, Pending, Values
<1>5. PICK X : Effect(tx, X)
  BY <1>4, MinedEffect
<1>6. /\ DOMAIN pending' = Procs /\ pending'[p] = None
      /\ \A q \in Procs \ {p} : pending'[q] = pending[q]
  BY <1>1, <1>2 DEF ClientTypeOK
<1>7. \A t \in Pending' : SecretsOf(t) \cap SecretsOf(tx) = {}
  <2>1. ASSUME NEW q \in Procs \ {p}, pending[q] # None
        PROVE  SecretsOf(pending[q]) \cap SecretsOf(tx) = {}
    BY <1>1, <1>2, <1>3, <2>1 DEF FreshPending
  <2>2. ASSUME NEW t \in orphans
        PROVE  SecretsOf(t) \cap SecretsOf(tx) = {}
    BY <1>1, <1>2, <1>3, <2>2 DEF FreshPending
  <2>3. \A t \in Pending' : t \in orphans \/ \E q \in Procs \ {p} : t = pending[q] /\ pending[q] # None
    BY <1>2, <1>6 DEF Pending, Values
  <2>. QED BY <2>1, <2>2, <2>3
<1>8. FreshPending'
  <2>1. orphans' \subseteq orphans /\ \A q \in Procs : pending'[q] \in {pending[q], None}
    BY <1>2, <1>6
  <2>. QED BY <1>1, <1>5, <1>6, <1>7, <2>1, FreshMined
<1>9. AloneInv(p)'
  <2>1. Effect(pending[p], X)
    BY <1>3, <1>5
  <2>. QED BY <1>1, <1>2, <1>6, <2>1, AloneOwn
<1>10. ASSUME NEW q \in Procs, q # p
       PROVE  AloneInv(q)'
  <2>1. tx.call = "deposit" \/ tx.key # Seed[q]
    BY <1>1, <1>2, <1>3, <1>10 DEF AloneInv, SeedsApart
  <2>2. orphans' \subseteq orphans /\ pending'[q] = pending[q]
    BY <1>2, <1>6, <1>10
  <2>. QED BY <1>1, <1>2, <1>4, <1>5, <2>1, <2>2, AloneMined
<1>. QED BY <1>2, <1>8, <1>9, <1>10

\* ... or with what was left behind.
LEMMA PartsOfMineOrphan ==
    ASSUME IInv, PartsInv, MineOrphan
    PROVE  /\ FreshPending'
           /\ \A t \in orphans' : Minable(t, N')
           /\ \A q \in Procs : AloneInv(q)'
<1>1. /\ ClientInv /\ ClientTypeOK /\ FreshPending
      /\ \A q \in Procs : AloneInv(q) /\ known[q] \in Nat /\ known[q] <= MESSAGE_NUM
  BY DEF PartsInv, ClientInv, ClientTypeOK, ProcInv
<1>2. PICK tx \in orphans :
         /\ Mined(tx) /\ orphans' = {t \in orphans \ {tx} : Minable(t, N')}
         /\ UNCHANGED <<at, job, known, todo, pending>>
  BY DEF MineOrphan
<1>3. tx \in Transactions /\ TxInv(tx)
  BY <1>1, NoneAssumption DEF ClientInv, ClientTypeOK, Pending
<1>4. PICK X : Effect(tx, X)
  BY <1>2, <1>3, MinedEffect
<1>5. DOMAIN pending = Procs /\ pending' = pending /\ orphans' \subseteq orphans
  BY <1>1, <1>2 DEF ClientTypeOK
<1>6. \A t \in Pending' : SecretsOf(t) \cap SecretsOf(tx) = {}
  <2>1. \A q \in Procs : pending[q] # None => SecretsOf(pending[q]) \cap SecretsOf(tx) = {}
    BY <1>1 DEF FreshPending
  <2>2. \A t \in orphans : t # tx => SecretsOf(t) \cap SecretsOf(tx) = {}
    BY <1>1 DEF FreshPending
  <2>3. \A t \in Pending' : (t \in orphans /\ t # tx) \/ \E q \in Procs : t = pending[q] /\ pending[q] # None
    BY <1>2, <1>5 DEF Pending, Values
  <2>. QED BY <2>1, <2>2, <2>3
<1>7. FreshPending'
  BY <1>1, <1>4, <1>5, <1>6, FreshMined
<1>8. ASSUME NEW q \in Procs
      PROVE  AloneInv(q)'
  <2>1. tx.call = "deposit" \/ tx.key # Seed[q] \/ tx \in Left(q)
    BY DEF Left
  <2>. QED BY <1>1, <1>2, <1>3, <1>4, <1>5, <2>1, AloneMined
<1>. QED BY <1>2, <1>7, <1>8

LEMMA PartsOfStutter ==
    ASSUME PartsInv, UNCHANGED allVars
    PROVE  /\ FreshPending'
           /\ \A t \in orphans' : Minable(t, N')
           /\ \A q \in Procs : AloneInv(q)'
<1>1. /\ UNCHANGED vars /\ at' = at /\ job' = job /\ known' = known
      /\ pending' = pending /\ orphans' = orphans
  BY DEF allVars, clientVars
<1>2. FreshPending' /\ \A t \in orphans' : Minable(t, N')
  BY <1>1, FreshKept
<1>3. \A q \in Procs : AloneInv(q)'
  BY <1>1, AloneKept DEF PartsInv
<1>. QED BY <1>2, <1>3

LEMMA PartsInit == ClientInit => IInv /\ PartsInv
<1>. SUFFICES ASSUME ClientInit PROVE IInv /\ PartsInv
  OBVIOUS
<1>1. /\ at = [p \in Procs |-> "shell"] /\ pending = [p \in Procs |-> None] /\ orphans = {}
  BY DEF ClientInit
<1>2. Pending = {}
  BY <1>1 DEF Pending, Values
<1>3. FreshPending
  BY <1>1, <1>2 DEF FreshPending
<1>4. \A p \in Procs : AloneInv(p)
  BY <1>1 DEF AloneInv
<1>. QED BY <1>1, <1>3, <1>4, ClientInitInv DEF PartsInv

LEMMA PartsInductive ==
    SeedsApart => (IInv /\ PartsInv /\ [ClientNext]_allVars => (IInv /\ PartsInv)')
<1>. SUFFICES ASSUME SeedsApart, IInv, PartsInv, [ClientNext]_allVars
              PROVE  IInv' /\ PartsInv'
  OBVIOUS
<1>1. ClientInv
  BY DEF PartsInv
<1>2. IInv' /\ ClientInv'
  BY <1>1, ClientStep, ClientStutter
<1>3. /\ FreshPending'
      /\ \A t \in orphans' : Minable(t, N')
      /\ \A q \in Procs : AloneInv(q)'
  BY PartsOfStep, PartsOfMineOwn, PartsOfMineOrphan, PartsOfStutter DEF ClientNext
<1>. QED BY <1>2, <1>3 DEF PartsInv, Minable, Values

LEMMA PartIsThere == PartsInv => NoUnknownError
BY DEF PartsInv, AloneInv, NoUnknownError, Running

\* While every process has a seed of its own, a withdrawal never ends in
\* "Unknown error" after it has paid the fee of the split.
THEOREM PartIsAlwaysThere == SeedsApart /\ ClientSpec => []NoUnknownError
<1>1. SeedsApart => SeedsApart'
  BY DEF SeedsApart
<1>. QED BY <1>1, PartsInit, PartsInductive, PartIsThere, PTL DEF ClientSpec

=============================================================================
