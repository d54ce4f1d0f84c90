-------------------------- MODULE FreshPool_proofs ---------------------------
(***************************************************************************)
(* Theorems about FreshPool: what drawing every secret anew adds to the    *)
(* theorems about the contract, and the refinement of the abstract pool.   *)
(***************************************************************************)
EXTENDS FreshPool, ZWaves_proofs

\* Clients pay the fee of the contract.
LEMMA FeeType == fee \in TxFees /\ fee = Fee
BY AccountsAssumption DEF fee

\* A call made by a client is a call of the contract.
LEMMA FreshIsNext == [FreshNext]_freshVars => [Next]_vars
<1>. SUFFICES ASSUME [FreshNext]_freshVars PROVE [Next]_vars
  OBVIOUS
<1>6. fee \in TxFees
  BY FeeType
<1>1. CASE FreshDeposit
  BY <1>1, <1>6 DEF FreshDeposit, Next, Deposit
<1>2. CASE FreshTransfer
  <2>1. PICK caller \in Accounts, ring \in Rings(Known), index \in Slots \X Slots, privkey \in PrivKeys :
          transfer(caller, ring, Selector(ring, index[1]), Selector(ring, index[2]), privkey, draws + 3,
                   {out \in Outputs[InBalance(Selector(ring, index[1]), Selector(ring, index[2]))] :
                       out[1].secret \in Drawn(1) /\ out[2].secret \in Drawn(2)}, fee)
    BY <1>2 DEF FreshTransfer
  <2>2. transfer(caller, ring, Selector(ring, index[1]), Selector(ring, index[2]), privkey, draws + 3,
                 Outputs[InBalance(Selector(ring, index[1]), Selector(ring, index[2]))], fee)
    BY <2>1 DEF transfer
  <2>3. draws + 3 \in Entropies
    BY <1>2 DEF FreshTransfer
  <2>. QED BY <1>6, <2>1, <2>2, <2>3 DEF Next, Transfer
<1>3. CASE FreshWithdrawal
  BY <1>3, <1>6 DEF FreshWithdrawal, Next
<1>4. CASE WasteDraw
  BY <1>4 DEF WasteDraw
<1>5. CASE UNCHANGED freshVars
  BY <1>5 DEF freshVars, vars
<1>. QED BY <1>1, <1>2, <1>3, <1>4, <1>5 DEF FreshNext

-----------------------------------------------------------------------------
\* The secret of every announced note comes from a draw that was made, and no
\* two announced notes have one secret.
SecretsAreDrawn ==
    /\ draws \in Nat
    /\ \A i \in DOMAIN M : \A q \in DOMAIN M[i].notes :
          \E e \in Entropies : e <= draws /\ M[i].notes[q].secret = Hash253(e)

SecretsDiffer ==
    \A i, j \in DOMAIN M : \A q \in DOMAIN M[i].notes : \A r \in DOMAIN M[j].notes :
        M[i].notes[q].secret = M[j].notes[r].secret => i = j /\ q = r

FInv == SecretsAreDrawn /\ SecretsDiffer

\* The notes of a message have new secrets, each one its own.
NewSecrets(message) ==
    /\ \A q \in DOMAIN message.notes :
          \E e \in Entropies : draws < e /\ e <= draws' /\ message.notes[q].secret = Hash253(e)
    /\ \A q, r \in DOMAIN message.notes :
          message.notes[q].secret = message.notes[r].secret => q = r

LEMMA FreshDepositSecrets ==
    ASSUME draws \in Nat, FreshDeposit
    PROVE  draws' \in Nat /\ draws <= draws' /\ \E message : Announce(message) /\ NewSecrets(message)
<1>1. PICK caller \in Accounts, payments \in Payments, pubkey \in PubKeys :
        deposit(caller, payments, pubkey, draws + 1, fee)
  BY DEF FreshDeposit
<1>. DEFINE note == [balance |-> payments[1].amount, pubkey |-> pubkey, secret |-> Hash253(draws + 1)]
            message == Message(<<>>, <<note>>)
<1>2. Announce(message)
  BY <1>1 DEF deposit
<1>3. draws + 1 \in Entropies /\ draws' = draws + 1
  BY DEF FreshDeposit
<1>4. message.notes = <<note>>
  BY DEF Message
<1>5. NewSecrets(message)
  <2>. HIDE DEF message
  <2>. QED BY <1>3, <1>4 DEF NewSecrets
<1>. QED BY <1>2, <1>3, <1>5

LEMMA FreshTransferSecrets ==
    ASSUME draws \in Nat, FreshTransfer
    PROVE  draws' \in Nat /\ draws <= draws' /\ \E message : Announce(message) /\ NewSecrets(message)
<1>1. PICK caller \in Accounts, ring \in Rings(Known), index \in Slots \X Slots, privkey \in PrivKeys :
        transfer(caller, ring, Selector(ring, index[1]), Selector(ring, index[2]), privkey, draws + 3,
                 {out \in Outputs[InBalance(Selector(ring, index[1]), Selector(ring, index[2]))] :
                     out[1].secret \in Drawn(1) /\ out[2].secret \in Drawn(2)}, fee)
  BY DEF FreshTransfer
<1>. DEFINE nullifiers == TransferNullifiers(privkey, draws + 3, Selector(ring, index[1]), Selector(ring, index[2]))
<1>2. PICK out : /\ out \in Notes \X Notes
                 /\ out[1].secret \in Drawn(1) /\ out[2].secret \in Drawn(2)
                 /\ Announce(Message(nullifiers, out))
  BY <1>1 DEF transfer, TransferOutputs
<1>. DEFINE message == Message(nullifiers, out)
<1>3. draws' = draws + 3 /\ draws' \in Nat
  BY DEF FreshTransfer
<1>4. /\ draws + 1 \in Entropies /\ out[1].secret = Hash253(draws + 1)
      /\ draws + 2 \in Entropies /\ out[2].secret = Hash253(draws + 2)
  BY <1>2 DEF Drawn
<1>5. out[1].secret # out[2].secret
  <2>1. draws + 1 # draws + 2
    OBVIOUS
  <2>. QED BY <1>4, <2>1, Hash253Injective
<1>6. message.notes = out /\ DOMAIN out = {1, 2}
  BY <1>2 DEF Message
<1>7. NewSecrets(message)
  <2>. HIDE DEF message
  <2>1. /\ draws < draws + 1 /\ draws + 1 <= draws'
        /\ draws < draws + 2 /\ draws + 2 <= draws'
    BY <1>3
  <2>. QED BY <1>4, <1>5, <1>6, <2>1 DEF NewSecrets
<1>. QED BY <1>2, <1>3, <1>7

LEMMA FreshWithdrawalSecrets ==
    ASSUME draws \in Nat, FreshWithdrawal
    PROVE  draws' \in Nat /\ draws <= draws' /\ \E message : Announce(message) /\ NewSecrets(message)
<1>1. draws' = draws /\ Withdrawal(fee)
  BY DEF FreshWithdrawal
<1>2. PICK nullifiers : Announce(Message(nullifiers, <<>>))
  BY <1>1 DEF Withdrawal, withdrawal
<1>3. NewSecrets(Message(nullifiers, <<>>))
  BY DEF NewSecrets, Message
<1>. QED BY <1>1, <1>2, <1>3

\* A message with new secrets keeps secrets apart.
LEMMA NewSecretsInv ==
    ASSUME IInv, FInv, draws' \in Nat, draws <= draws', NEW message, Announce(message), NewSecrets(message)
    PROVE  FInv'
<1>1. /\ MESSAGE_NUM \notin DOMAIN M
      /\ DOMAIN M' = DOMAIN M \cup {MESSAGE_NUM}
      /\ \A i \in DOMAIN M : M'[i] = M[i]
      /\ M'[MESSAGE_NUM] = message
  BY AnnounceLog DEF IInv, TypeOK, LogIsLedger
<1>2. draws \in Nat /\ Entropies \subseteq Nat
  BY EntropiesAreDraws DEF FInv, SecretsAreDrawn
<1>3. /\ \A q \in DOMAIN message.notes :
            \E e \in Entropies : draws < e /\ e <= draws' /\ message.notes[q].secret = Hash253(e)
      /\ \A q, r \in DOMAIN message.notes :
            message.notes[q].secret = message.notes[r].secret => q = r
  BY DEF NewSecrets
<1>4. SecretsAreDrawn'
  <2>. SUFFICES ASSUME NEW i \in DOMAIN M', NEW q \in DOMAIN M'[i].notes
                PROVE  \E e \in Entropies : e <= draws' /\ M'[i].notes[q].secret = Hash253(e)
    BY DEF SecretsAreDrawn
  <2>1. CASE i \in DOMAIN M
    <3>1. PICK e \in Entropies : e <= draws /\ M[i].notes[q].secret = Hash253(e)
      BY <1>1, <2>1 DEF FInv, SecretsAreDrawn
    <3>. QED BY <1>1, <1>2, <2>1, <3>1
  <2>2. CASE i = MESSAGE_NUM
    BY <1>1, <1>3, <2>2
  <2>. QED BY <1>1, <2>1, <2>2
<1>5. ASSUME NEW i \in DOMAIN M, NEW q \in DOMAIN M[i].notes, NEW r \in DOMAIN message.notes
      PROVE  M[i].notes[q].secret # message.notes[r].secret
  <2>1. PICK e \in Entropies : e <= draws /\ M[i].notes[q].secret = Hash253(e)
    BY DEF FInv, SecretsAreDrawn
  <2>2. PICK d \in Entropies : draws < d /\ message.notes[r].secret = Hash253(d)
    BY <1>3
  <2>3. e # d
    BY <1>2, <2>1, <2>2
  <2>. QED BY <2>1, <2>2, <2>3, Hash253Injective
<1>6. SecretsDiffer'
  <2>. SUFFICES ASSUME NEW i \in DOMAIN M', NEW j \in DOMAIN M',
                       NEW q \in DOMAIN M'[i].notes, NEW r \in DOMAIN M'[j].notes,
                       M'[i].notes[q].secret = M'[j].notes[r].secret
                PROVE  i = j /\ q = r
    BY DEF SecretsDiffer
  <2>1. CASE i \in DOMAIN M /\ j \in DOMAIN M
    <3>1. M'[i] = M[i] /\ M'[j] = M[j]
      BY <1>1, <2>1
    <3>. QED BY <2>1, <3>1 DEF FInv, SecretsDiffer
  <2>2. CASE i = MESSAGE_NUM /\ j = MESSAGE_NUM
    BY <1>1, <1>3, <2>2
  <2>3. CASE i \in DOMAIN M /\ j = MESSAGE_NUM
    <3>1. M'[i] = M[i] /\ M'[j] = message
      BY <1>1, <2>3
    <3>. QED BY <1>5, <2>3, <3>1
  <2>4. CASE i = MESSAGE_NUM /\ j \in DOMAIN M
    <3>1. M'[j] = M[j] /\ M'[i] = message
      BY <1>1, <2>4
    <3>. QED BY <1>5, <2>4, <3>1
  <2>. QED BY <1>1, <2>1, <2>2, <2>3, <2>4
<1>. QED BY <1>4, <1>6 DEF FInv

\* A client's step keeps what is true of the contract, and this.
LEMMA FreshStep ==
    ASSUME IInv, FInv, [FreshNext]_freshVars
    PROVE  IInv' /\ FInv'
<1>. USE DEF FInv
<1>1. draws \in Nat
  BY DEF SecretsAreDrawn
<1>2. CASE FreshDeposit
  <2>1. FInv'
    BY <1>1, <1>2, FreshDepositSecrets, NewSecretsInv
  <2>. QED BY <1>2, <2>1, FreshIsNext, ContractStep DEF FreshNext
<1>3. CASE FreshTransfer
  <2>1. FInv'
    BY <1>1, <1>3, FreshTransferSecrets, NewSecretsInv
  <2>. QED BY <1>3, <2>1, FreshIsNext, ContractStep DEF FreshNext
<1>4. CASE FreshWithdrawal
  <2>1. FInv'
    BY <1>1, <1>4, FreshWithdrawalSecrets, NewSecretsInv
  <2>. QED BY <1>4, <2>1, FreshIsNext, ContractStep DEF FreshNext
<1>5. CASE WasteDraw
  <2>1. M' = M /\ draws' = draws + 1
    BY <1>5 DEF WasteDraw, vars
  <2>2. SecretsDiffer'
    BY <2>1 DEF SecretsDiffer
  <2>3. SecretsAreDrawn'
    BY <1>1, <2>1, EntropiesAreDraws DEF SecretsAreDrawn
  <2>. QED BY <2>2, <2>3, FreshIsNext, ContractStep
<1>6. CASE UNCHANGED freshVars
  <2>1. FInv'
    BY <1>6 DEF freshVars, SecretsAreDrawn, SecretsDiffer
  <2>. QED BY <2>1, FreshIsNext, ContractStep
<1>. QED BY <1>2, <1>3, <1>4, <1>5, <1>6, FreshIsNext, ContractStep DEF FreshNext

LEMMA FreshInvariant == FreshSpec => [](IInv /\ FInv)
<1>1. FreshInit => IInv /\ FInv
  BY InitInv DEF FreshInit, Init, FInv, SecretsAreDrawn, SecretsDiffer
<1>2. IInv /\ FInv /\ [FreshNext]_freshVars => IInv' /\ FInv'
  BY FreshStep
<1>. QED BY <1>1, <1>2, PTL DEF FreshSpec

-----------------------------------------------------------------------------
\* The nullifiers of two notes with different secrets have nothing in common,
\* and no dummy is the nullifier of a note.
LEMMA NullifiersApart ==
    ASSUME NEW m \in Notes, NEW n \in Notes, NEW x \in NullifierOf(m), x \in NullifierOf(n)
    PROVE  m.secret = n.secret /\ m.pubkey = n.pubkey
<1>1. PICK k \in PrivKeys : PubKey(k) = m.pubkey /\ x = Compress(k, m.secret)
  BY DEF NullifierOf
<1>2. PICK l \in PrivKeys : PubKey(l) = n.pubkey /\ x = Compress(l, n.secret)
  BY DEF NullifierOf
<1>3. m.secret \in Secrets /\ n.secret \in Secrets
  BY NoteType
<1>4. k = l /\ m.secret = n.secret
  <2>1. Compress(k, m.secret) = Compress(l, n.secret)
    BY <1>1, <1>2
  <2>2. m.secret \in Secrets \cup Entropies /\ n.secret \in Secrets \cup Entropies
    BY <1>3
  <2>. QED BY <2>1, <2>2, CompressInjective
<1>. QED BY <1>1, <1>2, <1>4

LEMMA DummiesApart ==
    ASSUME NEW n \in Notes, NEW k \in PrivKeys, NEW e \in Entropies
    PROVE  Compress(k, e) \notin NullifierOf(n)
<1>. SUFFICES ASSUME Compress(k, e) \in NullifierOf(n) PROVE FALSE
  OBVIOUS
<1>1. PICK l \in PrivKeys : Compress(k, e) = Compress(l, n.secret)
  BY DEF NullifierOf
<1>2. n.secret \in Secrets
  BY NoteType
<1>. QED BY <1>1, <1>2, CompressInjective, EntropiesAreNotSecrets

\* The notes of the log are notes.
LEMMA LogNotes ==
    ASSUME TypeOK, NEW i \in DOMAIN M, NEW q \in DOMAIN M[i].notes
    PROVE  M[i].notes[q] \in Notes
BY DEF TypeOK, Messages

\* A nullifier of a log with fresh secrets hits one note, announced before it.
LEMMA HitsOne ==
    ASSUME IInv, FInv
    PROVE  OneNotePerNullifier
<1>. SUFFICES ASSUME NEW i \in DOMAIN M, NEW p \in DOMAIN M[i].nullifiers,
                     NEW j \in DOMAIN M, NEW q \in DOMAIN M[j].notes, Hits(i, p, j, q)
              PROVE  /\ j < i
                     /\ \A l \in DOMAIN M : \A r \in DOMAIN M[l].notes :
                           Hits(i, p, l, r) => l = j /\ r = q
  BY DEF OneNotePerNullifier
<1>1. ASSUME NEW l \in DOMAIN M, NEW r \in DOMAIN M[l].notes, Hits(i, p, l, r)
      PROVE  l = j /\ r = q
  <2>1. M[j].notes[q] \in Notes /\ M[l].notes[r] \in Notes
    BY LogNotes DEF IInv
  <2>2. M[j].notes[q].secret = M[l].notes[r].secret
    BY <1>1, <2>1, NullifiersApart DEF Hits
  <2>. QED BY <2>2 DEF FInv, SecretsDiffer
<1>2. M[j].notes[q] \in Notes
  BY LogNotes DEF IInv
<1>3. ~ \E k \in PrivKeys, e \in Entropies : M[i].nullifiers[p] = Compress(k, e)
  BY <1>2, DummiesApart DEF Hits
<1>4. PICK l \in DOMAIN M : l < i /\ \E r \in DOMAIN M[l].notes : Hits(i, p, l, r)
  BY <1>3 DEF IInv, SpentWasCreated, Hits
<1>. QED BY <1>1, <1>4

\* A nullifier of the log that hits a note hits no other one, and was
\* announced after it: no step of a client ever locks somebody's note.
THEOREM NoNoteLocked == FreshSpec => []OneNotePerNullifier
BY HitsOne, FreshInvariant, PTL

-----------------------------------------------------------------------------
\* A note with a flag was announced, with a secret that was drawn.
LEMMA FlaggedNotes ==
    ASSUME IInv, FInv, NEW n \in Notes, UTXOHasher(n) \in U
    PROVE  /\ \E i \in DOMAIN M : \E q \in DOMAIN M[i].notes : M[i].notes[q] = n
           /\ \E e \in Entropies : e <= draws /\ n.secret = Hash253(e)
<1>1. PICK i \in DOMAIN M : UTXOHasher(n) \in Values(M[i].utxos)
  BY DEF IInv, LogIsLedger
<1>2. PICK q \in DOMAIN M[i].notes : UTXOHasher(n) = UTXOHasher(M[i].notes[q])
  BY <1>1 DEF IInv, MessagesMatch, HashesOf, Values
<1>3. M[i].notes[q] = n
  BY <1>2, LogNotes, HasherInjective DEF IInv
<1>. QED BY <1>3 DEF FInv, SecretsAreDrawn

\* Two notes with flags and one secret are one note.
LEMMA SameSecret ==
    ASSUME IInv, FInv, NEW m \in Notes, NEW n \in Notes,
           UTXOHasher(m) \in U, UTXOHasher(n) \in U, m.secret = n.secret
    PROVE  m = n
<1>1. PICK i \in DOMAIN M : \E q \in DOMAIN M[i].notes : M[i].notes[q] = m
  BY FlaggedNotes
<1>2. PICK j \in DOMAIN M : \E r \in DOMAIN M[j].notes : M[j].notes[r] = n
  BY FlaggedNotes
<1>. QED BY <1>1, <1>2 DEF FInv, SecretsDiffer

\* A note whose secret is still to be drawn is hit by no nullifier.
IsFresh(n) == \E e \in Entropies : draws < e /\ n.secret = Hash253(e)

LEMMA FreshSecret ==
    ASSUME IInv, FInv, NEW n, IsFresh(n), NEW e \in Entropies, e <= draws
    PROVE  n.secret # Hash253(e)
<1>1. PICK d \in Entropies : draws < d /\ n.secret = Hash253(d)
  BY DEF IsFresh
<1>2. d # e
  BY <1>1, EntropiesAreDraws DEF FInv, SecretsAreDrawn
<1>. QED BY <1>1, <1>2, Hash253Injective

LEMMA FreshNotHit ==
    ASSUME IInv, FInv, NEW n \in Notes, IsFresh(n)
    PROVE  NullifierOf(n) \cap N = {}
<1>. SUFFICES ASSUME NEW x \in N, x \in NullifierOf(n) PROVE FALSE
  OBVIOUS
<1>1. PICK i \in DOMAIN M : x \in Values(M[i].nullifiers)
  BY DEF IInv, LogIsLedger
<1>2. PICK p \in DOMAIN M[i].nullifiers : x = M[i].nullifiers[p]
  BY <1>1 DEF Values
<1>3. ~ \E k \in PrivKeys, e \in Entropies : x = Compress(k, e)
  BY DummiesApart
<1>4. PICK j \in DOMAIN M : \E q \in DOMAIN M[j].notes : x \in NullifierOf(M[j].notes[q])
  BY <1>2, <1>3 DEF IInv, SpentWasCreated
<1>. PICK q \in DOMAIN M[j].notes : x \in NullifierOf(M[j].notes[q])
  BY <1>4
<1>5. M[j].notes[q] \in Notes
  BY LogNotes DEF IInv
<1>6. M[j].notes[q].secret = n.secret
  BY <1>5, NullifiersApart
<1>7. PICK e \in Entropies : e <= draws /\ M[j].notes[q].secret = Hash253(e)
  BY DEF FInv, SecretsAreDrawn
<1>. QED BY <1>6, <1>7, FreshSecret

\* What a call does to the unspent notes: it removes the notes whose nullifiers
\* it announces and adds those whose hashes it announces, nothing else.
LEMMA UnspentStep ==
    ASSUME IInv, FInv,
           NEW old \in SUBSET Notes, NEW new \in SUBSET Notes, NEW X,
           \A n \in old : UTXOHasher(n) \in U /\ NullifierOf(n) \cap X # {},
           \A n \in new : IsFresh(n),
           \A x \in X : \/ \E n \in old : x \in NullifierOf(n)
                        \/ \E k \in PrivKeys, e \in Entropies : x = Compress(k, e),
           U' = U \cup {UTXOHasher(n) : n \in new},
           N' = N \cup X
    PROVE  Unspent' = (Unspent \ old) \cup new
<1>1. ASSUME NEW n \in Notes, UTXOHasher(n) \in U, n \notin old
      PROVE  NullifierOf(n) \cap X = {}
  <2>. SUFFICES ASSUME NEW x \in X, x \in NullifierOf(n) PROVE FALSE
    OBVIOUS
  <2>1. PICK m \in old : x \in NullifierOf(m)
    BY DummiesApart
  <2>. QED BY <1>1, <2>1, NullifiersApart, SameSecret
<1>2. ASSUME NEW n \in new
      PROVE  NullifierOf(n) \cap N' = {}
  <2>1. NullifierOf(n) \cap N = {}
    BY FreshNotHit
  <2>2. ASSUME NEW x \in X, x \in NullifierOf(n) PROVE FALSE
    <3>1. PICK m \in old : x \in NullifierOf(m)
      BY <2>2, DummiesApart
    <3>2. m.secret = n.secret
      BY <2>2, <3>1, NullifiersApart
    <3>3. PICK e \in Entropies : e <= draws /\ m.secret = Hash253(e)
      BY FlaggedNotes
    <3>. QED BY <3>2, <3>3, FreshSecret
  <2>. QED BY <2>1, <2>2
<1>3. \A n \in Notes : UTXOHasher(n) \in {UTXOHasher(m) : m \in new} => n \in new
  BY HasherInjective
<1>4. Unspent' = {n \in Notes : UTXOHasher(n) \in U' /\ NullifierOf(n) \cap N' = {}}
  BY DEF Unspent, NullifierOf
<1>5. ASSUME NEW n \in Notes
      PROVE  UTXOHasher(n) \in U' /\ NullifierOf(n) \cap N' = {}
               <=> n \in (Unspent \ old) \cup new
  <2>1. CASE n \in new
    BY <1>2, <2>1
  <2>2. CASE n \notin new
    <3>1. UTXOHasher(n) \in U' <=> UTXOHasher(n) \in U
      BY <1>3, <2>2
    <3>2. n \in old => NullifierOf(n) \cap N' # {}
      OBVIOUS
    <3>3. UTXOHasher(n) \in U /\ n \notin old => (NullifierOf(n) \cap N' = {} <=> NullifierOf(n) \cap N = {})
      BY <1>1
    <3>4. n \in Unspent <=> UTXOHasher(n) \in U /\ NullifierOf(n) \cap N = {}
      BY DEF Unspent
    <3>. QED BY <2>2, <3>1, <3>2, <3>3, <3>4
  <2>. QED BY <2>1, <2>2
<1>6. (Unspent \ old) \cup new \subseteq Notes
  BY DEF Unspent
<1>. QED BY <1>4, <1>5, <1>6

-----------------------------------------------------------------------------
\* A deposit mints a note.
LEMMA MintStep ==
    ASSUME IInv, FInv, FreshDeposit
    PROVE  Pool!Mint /\ Unspent' \subseteq Notes
<1>1. PICK caller \in Accounts, payments \in Payments, pubkey \in PubKeys :
        deposit(caller, payments, pubkey, draws + 1, fee)
  BY DEF FreshDeposit
<1>. DEFINE balance == payments[1].amount
            note == [balance |-> balance, pubkey |-> pubkey, secret |-> Hash253(draws + 1)]
<1>2. balance \in Amounts
  BY <1>1, PaidAmount DEF deposit
<1>3. balance \in Int /\ balance \in Field /\ Num2Bits64(balance)
  BY <1>2, AmountType
<1>4. draws + 1 \in Entropies /\ draws \in Nat
  BY DEF FreshDeposit, FInv, SecretsAreDrawn
<1>5. note \in Notes
  BY <1>3, <1>4 DEF Notes, Candidates, Secrets
<1>6. IsFresh(note)
  BY <1>4 DEF IsFresh
<1>7. /\ U' = U \cup {UTXOHasher(note)} /\ N' = N
      /\ UTXOHasher(note) \notin U
      /\ caller # this
      /\ Settle(caller, Moved(caller, this, balance), fee)
  BY <1>1 DEF deposit, outputExists
<1>. HIDE DEF note, balance
<1>8. Unspent' = Unspent \cup {note}
  <2>. DEFINE old == {} new == {note} X == {}
  <2>1. U' = U \cup {UTXOHasher(n) : n \in new}
    BY <1>7
  <2>2. N' = N \cup X
    BY <1>7
  <2>3. /\ old \in SUBSET Notes /\ new \in SUBSET Notes
        /\ \A n \in old : UTXOHasher(n) \in U /\ NullifierOf(n) \cap X # {}
        /\ \A n \in new : IsFresh(n)
        /\ \A x \in X : \/ \E n \in old : x \in NullifierOf(n)
                        \/ \E k \in PrivKeys, e \in Entropies : x = Compress(k, e)
    BY <1>5, <1>6
  <2>4. Unspent' = (Unspent \ old) \cup new
    <3>. HIDE DEF old, new, X
    <3>. QED BY <2>1, <2>2, <2>3, UnspentStep
  <2>. QED BY <2>4
<1>9. note \in Unspent' \ Unspent
  BY <1>7, <1>8 DEF Unspent
<1>10. funds'[this] = funds[this] + note.balance
  <2>1. Moved(caller, this, balance) \in [Accounts -> Int]
    BY <1>3, MovedType
  <2>2. Moved(caller, this, balance)[this] = balance
    BY AccountsAssumption DEF Moved
  <2>3. note.balance = balance
    BY DEF note
  <2>. QED BY <1>1, <1>7, <2>1, <2>2, <2>3, FeeType, PotAfter DEF IInv, TypeOK
<1>. QED BY <1>5, <1>8, <1>9, <1>10 DEF Pool!Mint, Unspent

\* A withdrawal redeems a note: what is paid out and the fee are its balance.
LEMMA RedeemStep ==
    ASSUME IInv, FInv, FreshWithdrawal
    PROVE  Pool!Redeem /\ Unspent' \subseteq Notes
<1>1. PICK caller \in Accounts, ring \in Rings(Known), index \in Slots, privkey \in PrivKeys,
           receiver \in Accounts \cup {NoAccount} :
         withdrawal(caller, ring, Selector(ring, index), privkey, receiver, fee)
  BY DEF FreshWithdrawal, Withdrawal
<1>. DEFINE in == Selector(ring, index)
            nullifier == Compressor(privkey, in)
            amount == toInt(in.balance) - fee
<1>2. in \in Notes /\ UTXOHasher(in) \in InHashes(ring)
  BY <1>1 DEF Rings, Known, Selector, InHashes
<1>3. /\ caller = this
      /\ toInt(in.balance) >= fee
      /\ nullifier \notin N
      /\ UTXOHasher(in) \in U
      /\ in.pubkey = PubKey(privkey)
      /\ receiver \in Accounts /\ receiver # this
      /\ N' = N \cup {nullifier} /\ U' = U
      /\ Settle(caller, Moved(this, receiver, amount), fee)
  BY <1>1, <1>2 DEF withdrawal, wrongCaller, doublespend, inputsExist, WithdrawalCircuit
<1>. HIDE DEF in, nullifier, amount
<1>4. NullifierOf(in) = {nullifier}
  BY <1>2, <1>3, OneNullifier DEF nullifier
<1>5. Unspent' = Unspent \ {in}
  <2>. DEFINE old == {in} new == {} X == {nullifier}
  <2>1. U' = U \cup {UTXOHasher(n) : n \in new}
    BY <1>3
  <2>2. N' = N \cup X
    BY <1>3
  <2>3. /\ old \in SUBSET Notes /\ new \in SUBSET Notes
        /\ \A n \in old : UTXOHasher(n) \in U /\ NullifierOf(n) \cap X # {}
        /\ \A n \in new : IsFresh(n)
        /\ \A x \in X : \/ \E n \in old : x \in NullifierOf(n)
                        \/ \E k \in PrivKeys, e \in Entropies : x = Compress(k, e)
    BY <1>2, <1>3, <1>4
  <2>4. Unspent' = (Unspent \ old) \cup new
    <3>. HIDE DEF old, new, X
    <3>. QED BY <2>1, <2>2, <2>3, UnspentStep
  <2>. QED BY <2>4
<1>6. in \in Unspent
  BY <1>2, <1>3, <1>4 DEF Unspent
<1>7. /\ in.balance \in Int /\ Fee \in Nat \ {0} /\ BalanceLimit \in Nat
      /\ in.balance < BalanceLimit
  BY <1>2, NoteType, NumbersAssumption DEF Notes, Num2Bits64
<1>8. toInt(in.balance) = in.balance /\ in.balance >= Fee
  BY <1>3, <1>7 DEF toInt, fee
<1>9. funds'[this] = funds[this] - in.balance
  <2>1. amount = in.balance - Fee /\ amount \in Int
    BY <1>7, <1>8 DEF amount, fee
  <2>2. Moved(this, receiver, amount) \in [Accounts -> Int]
    BY <2>1, MovedType
  <2>3. Moved(this, receiver, amount)[this] = -amount
    BY <1>3, AccountsAssumption DEF Moved
  <2>4. funds[this] \in Int
    BY AccountsAssumption DEF IInv, TypeOK
  <2>5. funds'[this] = funds[this] + (-amount) - Fee
    BY <1>3, <2>2, <2>3, FeeType, AccountsAssumption, PotAfter DEF IInv, TypeOK
  <2>. QED BY <1>7, <2>1, <2>4, <2>5
<1>. QED BY <1>5, <1>6, <1>8, <1>9 DEF Pool!Redeem, Unspent

\* A transfer converts the notes of one owner into two others; the fee is the
\* difference of their balances.
LEMMA ConvertStep ==
    ASSUME IInv, FInv, FreshTransfer
    PROVE  Pool!Convert /\ Unspent' \subseteq Notes
<1>1. PICK caller \in Accounts, ring \in Rings(Known), index \in Slots \X Slots, privkey \in PrivKeys :
        transfer(caller, ring, Selector(ring, index[1]), Selector(ring, index[2]), privkey, draws + 3,
                 {out \in Outputs[InBalance(Selector(ring, index[1]), Selector(ring, index[2]))] :
                     out[1].secret \in Drawn(1) /\ out[2].secret \in Drawn(2)}, fee)
  BY DEF FreshTransfer
<1>. DEFINE in0 == Selector(ring, index[1])
            in1 == Selector(ring, index[2])
            dummy == Compress(privkey, draws + 3)
            nullifiers == TransferNullifiers(privkey, draws + 3, in0, in1)
<1>2. /\ in0 \in Notes /\ UTXOHasher(in0) \in InHashes(ring)
      /\ in1 \in Notes /\ UTXOHasher(in1) \in InHashes(ring)
  <2>1. index[1] \in Slots /\ index[2] \in Slots
    BY <1>1
  <2>. QED BY <1>1, <2>1 DEF Rings, Known, Selector, InHashes
<1>3. /\ caller = this
      /\ in0.pubkey = PubKey(privkey) /\ in1.pubkey = PubKey(privkey)
      /\ UTXOHasher(in0) \in U /\ UTXOHasher(in1) \in U
      /\ nullifiers[1] \notin N /\ nullifiers[2] \notin N
      /\ N' = N \cup {nullifiers[1], nullifiers[2]}
      /\ Settle(caller, Nothing, fee)
  BY <1>1, <1>2 DEF transfer, wrongCaller, doublespend, inputsExist, TransferInputs
<1>4. PICK out : /\ out[1].secret \in Drawn(1) /\ out[2].secret \in Drawn(2)
                 /\ TransferOutputs(in0, in1, out)
                 /\ UTXOHasher(out[1]) \notin U /\ UTXOHasher(out[2]) \notin U
                 /\ U' = U \cup {UTXOHasher(out[1]), UTXOHasher(out[2])}
  BY <1>1 DEF transfer, outputExists
<1>. DEFINE out0 == out[1]
            out1 == out[2]
<1>5. out0 \in Notes /\ out1 \in Notes
  BY <1>4 DEF TransferOutputs
<1>6. draws + 3 \in Entropies /\ draws \in Nat
  BY DEF FreshTransfer, FInv, SecretsAreDrawn
<1>7. /\ draws + 1 \in Entropies /\ out0.secret = Hash253(draws + 1)
      /\ draws + 2 \in Entropies /\ out1.secret = Hash253(draws + 2)
  BY <1>4 DEF Drawn
<1>8. IsFresh(out0) /\ IsFresh(out1)
  <2>1. draws < draws + 1 /\ draws < draws + 2
    BY <1>6
  <2>. QED BY <1>7, <2>1 DEF IsFresh
<1>9. out0 # out1
  <2>1. draws + 1 # draws + 2
    BY <1>6
  <2>. QED BY <1>7, <2>1, Hash253Injective
<1>10. /\ NullifierOf(in0) = {Compressor(privkey, in0)}
       /\ NullifierOf(in1) = {Compressor(privkey, in1)}
  BY <1>1, <1>2, <1>3, OneNullifier
<1>11. /\ nullifiers[1] = Compressor(privkey, in0)
       /\ nullifiers[2] = IF in0 = in1 THEN dummy ELSE Compressor(privkey, in1)
  <2>1. SameInputs(in0, in1) <=> in0 = in1
    BY <1>2, HasherInjective DEF SameInputs
  <2>. QED BY <2>1 DEF TransferNullifiers
<1>12. in0.balance + (IF in0 = in1 THEN 0 ELSE in1.balance) = out0.balance + out1.balance + Fee
  <2>. DEFINE total == InBalance(in0, in1)
              sum == out0.balance + out1.balance + Fee
  <2>1. /\ \A n \in {in0, in1, out0, out1} : n.balance \in Nat /\ n.balance < BalanceLimit
        /\ Fee \in Nat /\ BalanceLimit \in Nat /\ FieldPrime \in Nat
        /\ 2 * BalanceLimit + Fee < FieldPrime
    BY <1>2, <1>5, NumbersAssumption DEF Notes, Candidates, Num2Bits64, Field
  <2>2. total = in0.balance + (IF in0 = in1 THEN 0 ELSE in1.balance)
    <3>1. SameInputs(in0, in1) <=> in0 = in1
      BY <1>2, HasherInjective DEF SameInputs
    <3>. QED BY <3>1 DEF InBalance
  <2>3. total % FieldPrime = sum % FieldPrime
    BY <1>4 DEF TransferOutputs, Balanced, C
  <2>4. total \in Nat /\ total < FieldPrime
    BY <2>1, <2>2
  <2>5. sum \in Nat /\ sum < FieldPrime
    BY <2>1
  <2>6. total = sum
    <3>. HIDE DEF total, sum
    <3>. QED BY <2>3, <2>4, <2>5, NoWrap
  <2>. QED BY <2>2, <2>6
<1>. HIDE DEF in0, in1, out0, out1, dummy, nullifiers
<1>13. Unspent' = (Unspent \ {in0, in1}) \cup {out0, out1}
  <2>. DEFINE old == {in0, in1} new == {out0, out1} X == {nullifiers[1], nullifiers[2]}
  <2>1. U' = U \cup {UTXOHasher(n) : n \in new}
    BY <1>4 DEF out0, out1
  <2>2. N' = N \cup X
    BY <1>3
  <2>3. \A n \in old : UTXOHasher(n) \in U /\ NullifierOf(n) \cap X # {}
    BY <1>3, <1>10, <1>11
  <2>4. \A x \in X : \/ \E n \in old : x \in NullifierOf(n)
                     \/ \E k \in PrivKeys, e \in Entropies : x = Compress(k, e)
    BY <1>1, <1>6, <1>10, <1>11 DEF dummy
  <2>5. /\ old \in SUBSET Notes /\ new \in SUBSET Notes
        /\ \A n \in new : IsFresh(n)
    BY <1>2, <1>5, <1>8
  <2>6. Unspent' = (Unspent \ old) \cup new
    <3>. HIDE DEF old, new, X
    <3>. QED BY <2>1, <2>2, <2>3, <2>4, <2>5, UnspentStep
  <2>. QED BY <2>6
<1>14. in0 \in Unspent /\ in1 \in Unspent
  BY <1>2, <1>3, <1>10, <1>11 DEF Unspent
<1>15. out0 \in Unspent' \ Unspent /\ out1 \in Unspent' \ Unspent
  BY <1>4, <1>13 DEF Unspent, out0, out1
<1>16. funds'[this] = funds[this] - Fee
  <2>1. Nothing[this] = 0 /\ funds[this] \in Int /\ Fee \in Int
    BY AccountsAssumption, NumbersAssumption DEF Nothing, IInv, TypeOK
  <2>2. funds'[this] = funds[this] + 0 - Fee
    BY <1>3, <2>1, FeeType, AccountsAssumption, NothingType, PotAfter DEF IInv, TypeOK
  <2>. QED BY <2>1, <2>2
<1>17. Unspent' \subseteq Notes
  BY <1>5, <1>13 DEF Unspent
<1>. QED BY <1>3, <1>9, <1>12, <1>13, <1>14, <1>15, <1>16, <1>17 DEF Pool!Convert

\* The contract, called by clients that draw every secret anew, behaves as the
\* abstract pool of notes.
THEOREM ContractIsPool == FreshSpec => ImplementsPool
<1>1. FreshInit => Pool!PoolInit
  <2>. SUFFICES ASSUME FreshInit PROVE Unspent = {} /\ funds[this] = InitFunds[this]
    BY DEF Pool!PoolInit
  <2>. QED BY DEF FreshInit, Init, Unspent
<1>2. IInv /\ FInv /\ [FreshNext]_freshVars => [Pool!PoolNext]_(Pool!pool)
  <2>. SUFFICES ASSUME IInv, FInv, [FreshNext]_freshVars
                PROVE  Pool!PoolNext \/ UNCHANGED Pool!pool
    OBVIOUS
  <2>1. CASE FreshDeposit
    BY <2>1, MintStep DEF Pool!PoolNext
  <2>2. CASE FreshTransfer
    BY <2>2, ConvertStep DEF Pool!PoolNext
  <2>3. CASE FreshWithdrawal
    BY <2>3, RedeemStep DEF Pool!PoolNext
  <2>4. CASE UNCHANGED vars
    BY <2>4 DEF vars, Pool!pool, Unspent, NullifierOf
  <2>5. WasteDraw \/ UNCHANGED freshVars => UNCHANGED vars
    BY DEF WasteDraw, freshVars, vars
  <2>. QED BY <2>1, <2>2, <2>3, <2>4, <2>5 DEF FreshNext
<1>. QED BY <1>1, <1>2, FreshInvariant, PTL DEF FreshSpec, ImplementsPool, Pool!PoolSpec

-----------------------------------------------------------------------------
\* What a step of the pool adds to the pot is what it adds to the worth of the
\* notes: the invariant is that both are equal, and that the notes are finitely
\* many.
ExactlyBacked == IsFiniteSet(Unspent) /\ ExactBacking

LEMMA PoolKeepsBacking ==
    ASSUME TypeOK, ExactlyBacked, Unspent' \subseteq Notes, Pool!Mint \/ Pool!Convert \/ Pool!Redeem
    PROVE  ExactlyBacked'
<1>1. /\ Unspent \in SUBSET Notes /\ IsFiniteSet(Unspent) /\ ValueOf(Unspent) \in Nat
      /\ funds[this] = InitFunds[this] + ValueOf(Unspent)
      /\ funds[this] \in Int /\ InitFunds[this] \in Int /\ Fee \in Int
  <2>1. Unspent \in SUBSET Notes /\ Unspent \in SUBSET Unspent
    BY DEF Unspent
  <2>2. funds[this] \in Int /\ InitFunds[this] \in Int /\ Fee \in Int
    BY AccountsAssumption, NumbersAssumption DEF TypeOK
  <2>. QED BY <2>1, <2>2, ValuePart DEF ExactlyBacked, ExactBacking, OutstandingValue
<1>2. ASSUME NEW old \in SUBSET Unspent, NEW new \in SUBSET Notes, IsFiniteSet(new), new \cap Unspent = {},
             Unspent' = (Unspent \ old) \cup new,
             funds'[this] = funds[this] - ValueOf(old) + ValueOf(new)
      PROVE  ExactlyBacked'
  <2>1. /\ IsFiniteSet(Unspent')
        /\ ValueOf(Unspent') = ValueOf(Unspent) - ValueOf(old) + ValueOf(new)
        /\ ValueOf(old) \in Nat /\ ValueOf(new) \in Nat
    BY <1>1, <1>2, ValueReplace
  <2>2. funds'[this] = InitFunds[this] + ValueOf(Unspent')
    BY <1>1, <1>2, <2>1
  <2>. QED BY <2>1, <2>2 DEF ExactlyBacked, ExactBacking, OutstandingValue
<1>3. CASE Pool!Mint
  <2>1. PICK note \in Unspent' \ Unspent :
           /\ Unspent' = Unspent \cup {note}
           /\ funds'[this] = funds[this] + note.balance
    BY <1>3 DEF Pool!Mint
  <2>2. IsFiniteSet({note}) /\ ValueOf({note}) = note.balance /\ ValueOf({}) = 0 /\ note.balance \in Int
    BY <2>1, ValueOfOne, ValueOfNone, NoteType
  <2>3. /\ Unspent' = (Unspent \ {}) \cup {note}
        /\ funds'[this] = funds[this] - ValueOf({}) + ValueOf({note})
    BY <1>1, <2>1, <2>2
  <2>4. {} \in SUBSET Unspent /\ {note} \in SUBSET Notes /\ {note} \cap Unspent = {}
    BY <2>1
  <2>. QED BY <1>2, <2>2, <2>3, <2>4
<1>4. CASE Pool!Convert
  <2>1. PICK in0 \in Unspent, in1 \in Unspent, out0 \in Unspent' \ Unspent, out1 \in Unspent' \ Unspent :
           /\ out0 # out1
           /\ in0.balance + (IF in0 = in1 THEN 0 ELSE in1.balance) = out0.balance + out1.balance + Fee
           /\ Unspent' = (Unspent \ {in0, in1}) \cup {out0, out1}
           /\ funds'[this] = funds[this] - Fee
    BY <1>4 DEF Pool!Convert
  <2>2. /\ ValueOf({in0, in1}) = in0.balance + (IF in0 = in1 THEN 0 ELSE in1.balance)
        /\ ValueOf({out0, out1}) = out0.balance + out1.balance
        /\ IsFiniteSet({out0, out1})
        /\ out0.balance \in Int /\ out1.balance \in Int
    BY <1>1, <2>1, ValueOfTwo, NoteType
  <2>3. funds'[this] = funds[this] - ValueOf({in0, in1}) + ValueOf({out0, out1})
    BY <1>1, <2>1, <2>2
  <2>4. {in0, in1} \in SUBSET Unspent /\ {out0, out1} \in SUBSET Notes /\ {out0, out1} \cap Unspent = {}
    BY <2>1
  <2>. QED BY <1>2, <2>1, <2>2, <2>3, <2>4
<1>5. CASE Pool!Redeem
  <2>1. PICK note \in Unspent :
           /\ Unspent' = Unspent \ {note}
           /\ funds'[this] = funds[this] - note.balance
    BY <1>5 DEF Pool!Redeem
  <2>2. ValueOf({note}) = note.balance /\ ValueOf({}) = 0 /\ IsFiniteSet({}) /\ note.balance \in Int
    BY <1>1, ValueOfOne, ValueOfNone, NoteType, FS_EmptySet
  <2>3. /\ Unspent' = (Unspent \ {note}) \cup {}
        /\ funds'[this] = funds[this] - ValueOf({note}) + ValueOf({})
    BY <1>1, <2>1, <2>2
  <2>4. {note} \in SUBSET Unspent /\ {} \in SUBSET Notes /\ {} \cap Unspent = {}
    BY <2>1
  <2>. QED BY <1>2, <2>2, <2>3, <2>4
<1>. QED BY <1>3, <1>4, <1>5

\* The dApp never holds less than it owes, nor anything that nobody can claim.
THEOREM ExactlySolvent == FreshSpec => []ExactBacking
<1>1. FreshInit => ExactlyBacked
  <2>. SUFFICES ASSUME FreshInit PROVE ExactlyBacked
    OBVIOUS
  <2>1. Unspent = {} /\ funds = InitFunds /\ InitFunds[this] \in Int
    BY AccountsAssumption DEF FreshInit, Init, Unspent
  <2>. QED BY <2>1, FS_EmptySet, ValueOfNone DEF ExactlyBacked, ExactBacking, OutstandingValue
<1>2. IInv /\ FInv /\ ExactlyBacked /\ [FreshNext]_freshVars => ExactlyBacked'
  <2>. SUFFICES ASSUME IInv, FInv, ExactlyBacked, [FreshNext]_freshVars
                PROVE  ExactlyBacked'
    OBVIOUS
  <2>1. TypeOK
    BY DEF IInv
  <2>2. CASE FreshDeposit
    BY <2>1, <2>2, MintStep, PoolKeepsBacking
  <2>3. CASE FreshTransfer
    BY <2>1, <2>3, ConvertStep, PoolKeepsBacking
  <2>4. CASE FreshWithdrawal
    BY <2>1, <2>4, RedeemStep, PoolKeepsBacking
  <2>5. CASE UNCHANGED vars
    <3>1. Unspent' = Unspent /\ funds' = funds
      BY <2>5 DEF vars, Unspent, NullifierOf
    <3>. QED BY <3>1 DEF ExactlyBacked, ExactBacking, OutstandingValue
  <2>6. WasteDraw \/ UNCHANGED freshVars => UNCHANGED vars
    BY DEF WasteDraw, freshVars, vars
  <2>. QED BY <2>2, <2>3, <2>4, <2>5, <2>6 DEF FreshNext
<1>3. ExactlyBacked => ExactBacking
  BY DEF ExactlyBacked
<1>. QED BY <1>1, <1>2, <1>3, FreshInvariant, PTL DEF FreshSpec
=============================================================================
