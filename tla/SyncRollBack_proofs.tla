------------------------ MODULE SyncRollBack_proofs -------------------------
(***************************************************************************)
(* Theorems about what db.json holds for processes of one seed: while the  *)
(* chain only grows (SyncData), and when a new leader rolls it back        *)
(* (SyncRollBack).  There the file is compared with the longest log the    *)
(* chain has ever had: every other log it has is a prefix of that one.     *)
(***************************************************************************)
EXTENDS SyncRollBack, FreshPool_proofs

\* Processes with different seeds spoil the file for each other.
OneSeed == \A p, q \in Procs : Seed[p] = Seed[q]

Dbs == [utxos : SUBSET Hashes, nullifiers : SUBSET Nullifiers, assets : SUBSET Notes,
        MESSAGE_NUM : Nat]

\* A note in the first n messages that belongs to a private key.
Announced(privkey, n, a) == \E i \in Prefix(n) : a \in decrypted(privkey, M[i])

\* A db between two runs of the loop.
Good(privkey, d) ==
    /\ d \in Dbs
    /\ KnowsPrefix(privkey, d)
    /\ \A a \in d.assets : Announced(privkey, d.MESSAGE_NUM, a)

\* A db inside the loop: what it lacks is in the entries still to process.
Filling(privkey, d, n, todo) ==
    /\ d \in Dbs
    /\ n \in Nat /\ n <= MESSAGE_NUM
    /\ DOMAIN todo \subseteq Prefix(n)
    /\ \A i \in DOMAIN todo : todo[i] = M[i]
    /\ PrefixUtxos(n) = d.utxos \cup UNION {Values(M[i].utxos) : i \in DOMAIN todo}
    /\ PrefixNullifiers(n) = d.nullifiers \cup UNION {Values(M[i].nullifiers) : i \in DOMAIN todo}
    /\ \A a \in PrefixAssets(privkey, n) :
          a \in d.assets \/ \E i \in DOMAIN todo : a \in decrypted(privkey, M[i])
    /\ \A a \in d.assets : Announced(privkey, n, a)

ProcInv(p) ==
    /\ pc[p] \in {"messageNum", "accountData", "write"} => Good(Seed[p], db[p])
    /\ pc[p] = "accountData" =>
          num[p] \in Nat /\ num[p] <= MESSAGE_NUM /\ db[p].MESSAGE_NUM < num[p]
    /\ pc[p] = "loop" => Filling(Seed[p], db[p], num[p], res[p])

SInv ==
    /\ pc \in [Procs -> {"idle", "messageNum", "accountData", "loop", "write"}]
    /\ db = [p \in Procs |-> db[p]]
    /\ num = [p \in Procs |-> num[p]]
    /\ res = [p \in Procs |-> res[p]]
    /\ \A d \in dbfile, p \in Procs : Good(Seed[p], d)
    /\ \A p \in Procs : ProcInv(p)

-----------------------------------------------------------------------------
\* The private key behind a pubkey is the one that made it.
LEMMA OwnNullifier ==
    ASSUME NEW k \in PrivKeys, NEW a, a.pubkey = PubKey(k)
    PROVE  nullifierOf(a) = Compress(k, a.secret)
<1>1. (CHOOSE l \in PrivKeys : PubKey(l) = a.pubkey) = k
  BY PubKeyInjective
<1>. QED BY <1>1 DEF nullifierOf

\* Two announced notes of one owner with one nullifier are one note.
LEMMA SameNullifier ==
    ASSUME IInv, FInv, NEW k \in PrivKeys, NEW m, NEW n, NEW a, NEW b,
           Announced(k, m, a), Announced(k, n, b), nullifierOf(a) = nullifierOf(b)
    PROVE  a = b
<1>1. PICK i \in DOMAIN M : a \in decrypted(k, M[i])
  BY DEF Announced, Prefix
<1>2. PICK j \in DOMAIN M : b \in decrypted(k, M[j])
  BY DEF Announced, Prefix
<1>3. PICK q \in DOMAIN M[i].notes : M[i].notes[q] = a /\ a.pubkey = PubKey(k)
  BY <1>1 DEF decrypted, Values
<1>4. PICK r \in DOMAIN M[j].notes : M[j].notes[r] = b /\ b.pubkey = PubKey(k)
  BY <1>2 DEF decrypted, Values
<1>5. a.secret \in Secrets /\ b.secret \in Secrets
  BY <1>3, <1>4, LogNotes, NoteType DEF IInv
<1>6. a.secret = b.secret
  BY <1>3, <1>4, <1>5, OwnNullifier, CompressInjective
<1>. QED BY <1>3, <1>4, <1>6 DEF FInv, SecretsDiffer

\* A step of the chain leaves the messages below its number alone.
LEMMA ChainPrefix ==
    ASSUME IInv, [FreshNext]_freshVars
    PROVE  /\ MESSAGE_NUM <= MESSAGE_NUM' /\ MESSAGE_NUM \in Nat /\ MESSAGE_NUM' \in Nat
           /\ \A n \in Nat : n <= MESSAGE_NUM => Prefix(n)' = Prefix(n)
           /\ \A n \in Nat : \A i \in Prefix(n) : M'[i] = M[i]
<1>1. MESSAGE_NUM \in Nat /\ DOMAIN M = 0 .. MESSAGE_NUM - 1
  BY DEF IInv, TypeOK, LogIsLedger
<1>2. CASE Next
  <2>1. ASSUME NEW message \in Messages, LedgerStep(message)
        PROVE  /\ MESSAGE_NUM' = MESSAGE_NUM + 1
               /\ DOMAIN M' = DOMAIN M \cup {MESSAGE_NUM}
               /\ \A i \in DOMAIN M : M'[i] = M[i] /\ i < MESSAGE_NUM
    BY <1>1, <2>1, AnnounceLog DEF LedgerStep
  <2>2. MoneyStep => MESSAGE_NUM' = MESSAGE_NUM /\ M' = M
    BY DEF MoneyStep
  <2>. QED BY <1>1, <1>2, <2>1, <2>2, NextStep DEF Prefix, IInv
<1>3. CASE UNCHANGED vars
  BY <1>1, <1>3 DEF vars, Prefix
<1>. QED BY <1>2, <1>3, FreshIsNext

LEMMA PrefixKept ==
    ASSUME IInv, [FreshNext]_freshVars, NEW n \in Nat, n <= MESSAGE_NUM, NEW k \in PrivKeys
    PROVE  /\ PrefixUtxos(n)' = PrefixUtxos(n)
           /\ PrefixNullifiers(n)' = PrefixNullifiers(n)
           /\ PrefixAssets(k, n)' = PrefixAssets(k, n)
           /\ \A a : Announced(k, n, a)' = Announced(k, n, a)
<1>1. Prefix(n)' = Prefix(n) /\ \A i \in Prefix(n) : M'[i] = M[i]
  BY ChainPrefix
<1>2. {Values(M'[i].utxos) : i \in Prefix(n)} = {Values(M[i].utxos) : i \in Prefix(n)}
  BY <1>1
<1>3. {Values(M'[i].nullifiers) : i \in Prefix(n)} = {Values(M[i].nullifiers) : i \in Prefix(n)}
  BY <1>1
<1>4. {decrypted(k, M'[i]) : i \in Prefix(n)} = {decrypted(k, M[i]) : i \in Prefix(n)}
  BY <1>1
<1>5. PrefixUtxos(n)' = PrefixUtxos(n)
  BY <1>1, <1>2 DEF PrefixUtxos, Values
<1>6. PrefixNullifiers(n)' = PrefixNullifiers(n)
  BY <1>1, <1>3 DEF PrefixNullifiers, Values
<1>7. PrefixAssets(k, n)' = PrefixAssets(k, n)
  BY <1>1, <1>4, <1>6 DEF PrefixAssets, decrypted, nullifierOf, Values
<1>8. \A a : Announced(k, n, a)' = Announced(k, n, a)
  BY <1>1 DEF Announced, decrypted, Values
<1>. QED BY <1>5, <1>6, <1>7, <1>8

\* What a process holds survives every step of the chain.
LEMMA GoodKept ==
    ASSUME IInv, [FreshNext]_freshVars, NEW k \in PrivKeys
    PROVE  \A d : Good(k, d) => Good(k, d)'
<1>1. SUFFICES ASSUME NEW d, Good(k, d)
               PROVE  Good(k, d)'
  OBVIOUS
<1>2. d \in Dbs /\ d.MESSAGE_NUM \in Nat
  BY <1>1 DEF Good, Dbs
<1>3. d.MESSAGE_NUM <= MESSAGE_NUM /\ d.MESSAGE_NUM <= MESSAGE_NUM'
  BY <1>1, <1>2, ChainPrefix DEF Good, KnowsPrefix
<1>. QED BY <1>1, <1>2, <1>3, PrefixKept DEF Good, KnowsPrefix

LEMMA FillingKept ==
    ASSUME IInv, [FreshNext]_freshVars, NEW k \in PrivKeys
    PROVE  \A d, n, todo : Filling(k, d, n, todo) => Filling(k, d, n, todo)'
<1>1. SUFFICES ASSUME NEW d, NEW n, NEW todo, Filling(k, d, n, todo)
               PROVE  Filling(k, d, n, todo)'
  OBVIOUS
<1>2. n \in Nat /\ n <= MESSAGE_NUM /\ n <= MESSAGE_NUM'
  BY <1>1, ChainPrefix DEF Filling
<1>3. \A i \in DOMAIN todo : i \in Prefix(n) /\ M'[i] = M[i]
  BY <1>1, <1>2, ChainPrefix DEF Filling
<1>4. {Values(M'[i].utxos) : i \in DOMAIN todo} = {Values(M[i].utxos) : i \in DOMAIN todo}
  BY <1>3
<1>5. {Values(M'[i].nullifiers) : i \in DOMAIN todo} = {Values(M[i].nullifiers) : i \in DOMAIN todo}
  BY <1>3
<1>6. \A i \in DOMAIN todo : decrypted(k, M'[i]) = decrypted(k, M[i])
  BY <1>3
<1>7. Prefix(n)' = Prefix(n)
  BY <1>2, ChainPrefix
<1>8. d \in Dbs /\ DOMAIN todo \subseteq Prefix(n)' /\ \A i \in DOMAIN todo : todo[i] = M'[i]
  BY <1>1, <1>3, <1>7 DEF Filling
<1>9. PrefixUtxos(n)' = d.utxos \cup UNION {Values(M'[i].utxos) : i \in DOMAIN todo}
  BY <1>1, <1>2, <1>4, PrefixKept DEF Filling
<1>10. PrefixNullifiers(n)' = d.nullifiers \cup UNION {Values(M'[i].nullifiers) : i \in DOMAIN todo}
  BY <1>1, <1>2, <1>5, PrefixKept DEF Filling
<1>11. \A a \in PrefixAssets(k, n)' : a \in d.assets \/ \E i \in DOMAIN todo : a \in decrypted(k, M'[i])
  BY <1>1, <1>2, <1>6, PrefixKept DEF Filling
<1>12. \A a \in d.assets : Announced(k, n, a)'
  BY <1>1, <1>2, PrefixKept DEF Filling
<1>. QED BY <1>2, <1>8, <1>9, <1>10, <1>11, <1>12 DEF Filling, Values, decrypted

LEMMA ProcKept ==
    ASSUME IInv, [FreshNext]_freshVars, SInv, NEW p \in Procs,
           pc'[p] = pc[p], db'[p] = db[p], num'[p] = num[p], res'[p] = res[p]
    PROVE  ProcInv(p)'
<1>1. Seed[p] \in PrivKeys /\ ProcInv(p)
  BY SeedAssumption DEF SInv
<1>2. MESSAGE_NUM \in Nat /\ MESSAGE_NUM' \in Nat /\ MESSAGE_NUM <= MESSAGE_NUM'
  BY ChainPrefix
<1>3. Good(Seed[p], db[p]) => Good(Seed[p], db[p])'
  BY <1>1, GoodKept
<1>. QED BY <1>1, <1>2, GoodKept, FillingKept DEF ProcInv

-----------------------------------------------------------------------------
\* The messages a db lacks when its answer arrives, and what they add.
LEMMA PrefixSplit ==
    ASSUME IInv, NEW c \in Nat, NEW n \in Nat, c <= n, n <= MESSAGE_NUM
    PROVE  /\ Prefix(n) = Prefix(c) \cup (c .. n - 1)
           /\ (c .. n - 1) \subseteq DOMAIN M
           /\ PrefixUtxos(n) = PrefixUtxos(c) \cup UNION {Values(M[i].utxos) : i \in c .. n - 1}
           /\ PrefixNullifiers(n) =
                 PrefixNullifiers(c) \cup UNION {Values(M[i].nullifiers) : i \in c .. n - 1}
<1>1. MESSAGE_NUM \in Nat /\ DOMAIN M = 0 .. MESSAGE_NUM - 1
  BY DEF IInv, TypeOK, LogIsLedger
<1>2. (c .. n - 1) \subseteq DOMAIN M
  BY <1>1
<1>3. Prefix(n) = Prefix(c) \cup (c .. n - 1)
  BY <1>1 DEF Prefix
<1>4. PrefixUtxos(n) = PrefixUtxos(c) \cup UNION {Values(M[i].utxos) : i \in c .. n - 1}
  BY <1>3 DEF PrefixUtxos
<1>5. PrefixNullifiers(n) =
        PrefixNullifiers(c) \cup UNION {Values(M[i].nullifiers) : i \in c .. n - 1}
  BY <1>3 DEF PrefixNullifiers
<1>. QED BY <1>2, <1>3, <1>4, <1>5

LEMMA MessageTypes ==
    ASSUME IInv, NEW i \in DOMAIN M, NEW k
    PROVE  /\ Values(M[i].utxos) \subseteq Hashes
           /\ Values(M[i].nullifiers) \subseteq Nullifiers
           /\ decrypted(k, M[i]) \subseteq Notes
<1>1. M[i] \in Messages
  BY DEF IInv, TypeOK
<1>2. /\ M[i].utxos \in UNION {[1 .. n -> Hashes] : n \in 0 .. 2}
      /\ M[i].nullifiers \in UNION {[1 .. n -> Nullifiers] : n \in 0 .. 2}
      /\ M[i].notes \in UNION {[1 .. n -> Notes] : n \in 0 .. 2}
  BY <1>1 DEF Messages
<1>. QED BY <1>2 DEF Values, decrypted

\* One round of the loop.
LEMMA ProcessKeeps ==
    ASSUME IInv, FInv, NEW p \in Procs, NEW d, NEW n, NEW todo,
           Filling(Seed[p], d, n, todo), NEW i \in DOMAIN todo
    PROVE  Filling(Seed[p], processMessage(p, d, todo[i]), n,
                   [j \in DOMAIN todo \ {i} |-> todo[j]])
<1>. DEFINE k     == Seed[p]
            nulls == Values(M[i].nullifiers)
            kept  == {a \in d.assets : nullifierOf(a) \notin nulls}
            new   == {a \in decrypted(k, M[i]) : \A b \in kept : nullifierOf(b) # nullifierOf(a)}
            e     == processMessage(p, d, todo[i])
            rest  == [j \in DOMAIN todo \ {i} |-> todo[j]]
<1>1. k \in PrivKeys
  BY SeedAssumption
<1>2. d \in Dbs /\ n \in Nat /\ n <= MESSAGE_NUM /\ i \in Prefix(n) /\ todo[i] = M[i] /\ i \in DOMAIN M
  BY DEF Filling, Prefix
<1>3. e = [d EXCEPT !.utxos = @ \cup Values(M[i].utxos), !.nullifiers = @ \cup nulls,
                    !.assets = kept \cup new]
  BY <1>2 DEF processMessage
<1>4. /\ e.utxos = d.utxos \cup Values(M[i].utxos)
      /\ e.nullifiers = d.nullifiers \cup nulls
      /\ e.assets = kept \cup new
      /\ e.MESSAGE_NUM = d.MESSAGE_NUM
      /\ e = [utxos |-> e.utxos, nullifiers |-> e.nullifiers, assets |-> e.assets,
              MESSAGE_NUM |-> e.MESSAGE_NUM]
  BY <1>2, <1>3 DEF Dbs
<1>5. e \in Dbs
  BY <1>2, <1>4, MessageTypes DEF Dbs
<1>6. /\ DOMAIN rest = DOMAIN todo \ {i}
      /\ DOMAIN rest \subseteq Prefix(n)
      /\ \A j \in DOMAIN rest : rest[j] = M[j]
  BY DEF Filling
<1>7. DOMAIN todo = DOMAIN rest \cup {i}
  BY <1>6
<1>8. PrefixUtxos(n) = e.utxos \cup UNION {Values(M[j].utxos) : j \in DOMAIN rest}
  BY <1>4, <1>7 DEF Filling
<1>9. PrefixNullifiers(n) = e.nullifiers \cup UNION {Values(M[j].nullifiers) : j \in DOMAIN rest}
  BY <1>4, <1>7 DEF Filling
<1>10. \A a \in e.assets : Announced(k, n, a)
  BY <1>2, <1>4 DEF Filling, Announced
<1>11. ASSUME NEW a \in PrefixAssets(k, n)
       PROVE  a \in e.assets \/ \E j \in DOMAIN rest : a \in decrypted(k, M[j])
  <2>1. nullifierOf(a) \notin nulls
    BY <1>2, <1>11 DEF PrefixAssets, PrefixNullifiers
  <2>2. CASE a \in d.assets
    BY <2>1, <2>2, <1>4
  <2>3. CASE a \in decrypted(k, M[i])
    <3>1. Announced(k, n, a)
      BY <2>3, <1>2 DEF Announced
    <3>2. \A b \in kept : nullifierOf(b) = nullifierOf(a) => b = a
      BY <1>1, <3>1, SameNullifier DEF Filling
    <3>. QED BY <2>3, <3>2, <1>4
  <2>. QED BY <2>2, <2>3, <1>7, <1>11 DEF Filling
<1>. HIDE DEF e, rest
<1>12. Filling(k, e, n, rest)
  BY <1>2, <1>5, <1>6, <1>8, <1>9, <1>10, <1>11 DEF Filling
<1>. QED BY <1>12 DEF e, rest

\* The end of the loop.
LEMMA LoopEnds ==
    ASSUME IInv, NEW k \in PrivKeys, NEW d, NEW n, NEW todo, Filling(k, d, n, todo), DOMAIN todo = {}
    PROVE  Good(k, [d EXCEPT !.MESSAGE_NUM = n])
<1>. DEFINE e == [d EXCEPT !.MESSAGE_NUM = n]
<1>1. d \in Dbs /\ n \in Nat /\ n <= MESSAGE_NUM
  BY DEF Filling
<1>2. /\ e.utxos = d.utxos /\ e.nullifiers = d.nullifiers /\ e.assets = d.assets
      /\ e.MESSAGE_NUM = n /\ e \in Dbs
  BY <1>1 DEF Dbs
<1>3. d.utxos = PrefixUtxos(n) /\ d.nullifiers = PrefixNullifiers(n)
      /\ PrefixAssets(k, n) \subseteq d.assets /\ \A a \in d.assets : Announced(k, n, a)
  BY DEF Filling
<1>. HIDE DEF e
<1>4. Good(k, e)
  BY <1>1, <1>2, <1>3 DEF Good, KnowsPrefix
<1>. QED BY <1>4 DEF e

\* The answer with the messages a db lacks.
LEMMA AnswerFills ==
    ASSUME IInv, NEW k \in PrivKeys, NEW d, Good(k, d), NEW n \in Nat,
           d.MESSAGE_NUM < n, n <= MESSAGE_NUM
    PROVE  Filling(k, d, n, [i \in rxrange(d.MESSAGE_NUM, n - 1) \cap DOMAIN M |-> M[i]])
<1>. DEFINE c == d.MESSAGE_NUM
            todo == [i \in rxrange(c, n - 1) \cap DOMAIN M |-> M[i]]
<1>1. d \in Dbs /\ c \in Nat /\ c <= n
  BY DEF Good, Dbs
<1>2. rxrange(c, n - 1) = c .. n - 1
  BY <1>1 DEF rxrange
<1>3. DOMAIN todo = c .. n - 1 /\ \A i \in c .. n - 1 : todo[i] = M[i]
  BY <1>1, <1>2, PrefixSplit
<1>4. DOMAIN todo \subseteq Prefix(n) /\ Prefix(n) = Prefix(c) \cup DOMAIN todo
  BY <1>1, <1>3, PrefixSplit
<1>5. PrefixUtxos(n) = d.utxos \cup UNION {Values(M[i].utxos) : i \in DOMAIN todo}
  BY <1>1, <1>3, PrefixSplit DEF Good, KnowsPrefix
<1>6. PrefixNullifiers(n) = d.nullifiers \cup UNION {Values(M[i].nullifiers) : i \in DOMAIN todo}
  BY <1>1, <1>3, PrefixSplit DEF Good, KnowsPrefix
<1>7. PrefixAssets(k, c) \subseteq d.assets /\ d.nullifiers = PrefixNullifiers(c)
      /\ \A a \in d.assets : Announced(k, c, a)
  BY DEF Good, KnowsPrefix
<1>8. ASSUME NEW a \in PrefixAssets(k, n)
      PROVE  a \in d.assets \/ \E i \in DOMAIN todo : a \in decrypted(k, M[i])
  <2>1. nullifierOf(a) \notin PrefixNullifiers(c)
    BY <1>6, <1>7, <1>8 DEF PrefixAssets
  <2>2. PICK i \in Prefix(n) : a \in decrypted(k, M[i])
    BY <1>8 DEF PrefixAssets
  <2>3. CASE i \in Prefix(c)
    BY <2>1, <2>2, <2>3, <1>7 DEF PrefixAssets
  <2>. QED BY <2>2, <2>3, <1>4
<1>9. \A a \in d.assets : Announced(k, n, a)
  BY <1>4, <1>7 DEF Announced
<1>10. \A i \in DOMAIN todo : todo[i] = M[i]
  BY <1>3
<1>. HIDE DEF todo
<1>11. Filling(k, d, n, todo)
  BY <1>1, <1>4, <1>5, <1>6, <1>8, <1>9, <1>10 DEF Filling
<1>. QED BY <1>11 DEF todo

-----------------------------------------------------------------------------
LEMMA SyncIsFresh == SyncNext => [FreshNext]_freshVars
BY DEF SyncNext, Chain, Command, Load, MessageNum, AccountData, Process, Truncate, Write, Crash,
       FreshNext

LEMMA SyncContract == SyncSpec => [](IInv /\ FInv)
<1>1. SyncInit => FreshInit
  BY DEF SyncInit
<1>2. [SyncNext]_syncVars => [FreshNext]_freshVars
  BY SyncIsFresh DEF syncVars
<1>. QED BY <1>1, <1>2, FreshInvariant, PTL DEF SyncSpec, FreshSpec

LEMMA SyncStart ==
    ASSUME SyncInit
    PROVE  SInv
<1>1. M = [i \in {} |-> <<>>] /\ MESSAGE_NUM = 0
  BY DEF SyncInit, FreshInit, Init
<1>2. PrefixUtxos(0) = {} /\ PrefixNullifiers(0) = {} /\ \A k : PrefixAssets(k, 0) = {}
  BY <1>1 DEF PrefixUtxos, PrefixNullifiers, PrefixAssets, Prefix
<1>3. /\ emptyDb \in Dbs /\ emptyDb.utxos = {} /\ emptyDb.nullifiers = {}
      /\ emptyDb.assets = {} /\ emptyDb.MESSAGE_NUM = 0
  BY DEF emptyDb, Dbs
<1>4. \A k : Good(k, emptyDb)
  BY <1>1, <1>2, <1>3 DEF Good, KnowsPrefix
<1>. QED BY <1>4 DEF SyncInit, SInv, ProcInv

\* What a command leaves for the other processes and the file.
LEMMA Others ==
    ASSUME IInv, [FreshNext]_freshVars, SInv, OneSeed, NEW p \in Procs,
           \E s \in {"idle", "messageNum", "accountData", "loop", "write"} : pc' = [pc EXCEPT ![p] = s],
           \E d : db' = [db EXCEPT ![p] = d],
           \E n : num' = [num EXCEPT ![p] = n],
           \E r : res' = [res EXCEPT ![p] = r],
           \A d \in dbfile' : d \in dbfile \/ Good(Seed[p], d),
           ProcInv(p)'
    PROVE  SInv'
<1>1. PICK s \in {"idle", "messageNum", "accountData", "loop", "write"} : pc' = [pc EXCEPT ![p] = s]
  OBVIOUS
<1>2. PICK d : db' = [db EXCEPT ![p] = d]
  OBVIOUS
<1>3. PICK n : num' = [num EXCEPT ![p] = n]
  OBVIOUS
<1>4. PICK r : res' = [res EXCEPT ![p] = r]
  OBVIOUS
<1>5. pc' \in [Procs -> {"idle", "messageNum", "accountData", "loop", "write"}]
      /\ db' = [q \in Procs |-> db'[q]]
      /\ num' = [q \in Procs |-> num'[q]]
      /\ res' = [q \in Procs |-> res'[q]]
  BY <1>1, <1>2, <1>3, <1>4 DEF SInv
<1>6. ASSUME NEW q \in Procs PROVE ProcInv(q)'
  <2>1. CASE q = p
    BY <2>1
  <2>2. CASE q # p
    <3>1. pc'[q] = pc[q] /\ db'[q] = db[q] /\ num'[q] = num[q] /\ res'[q] = res[q]
      BY <1>1, <1>2, <1>3, <1>4, <2>2 DEF SInv
    <3>. QED BY <3>1, ProcKept
  <2>. QED BY <2>1, <2>2
<1>7. ASSUME NEW e \in dbfile', NEW q \in Procs PROVE Good(Seed[q], e)'
  <2>1. Seed[q] \in PrivKeys /\ Seed[q] = Seed[p]
    BY SeedAssumption DEF OneSeed
  <2>2. Good(Seed[q], e)
    BY <2>1 DEF SInv
  <2>. QED BY <2>1, <2>2, GoodKept
<1>. QED BY <1>5, <1>6, <1>7 DEF SInv

LEMMA CommandInv ==
    ASSUME IInv, FInv, SInv, OneSeed, NEW p \in Procs, Command(p)
    PROVE  SInv'
<1>1. [FreshNext]_freshVars /\ IInv /\ Seed[p] \in PrivKeys /\ ProcInv(p)
  BY SeedAssumption, SyncIsFresh DEF SyncNext, SInv
<1>2. MESSAGE_NUM \in Nat
  BY DEF IInv, TypeOK
<1>3. DOMAIN db = Procs /\ DOMAIN num = Procs /\ DOMAIN res = Procs /\ DOMAIN pc = Procs
  BY DEF SInv
<1>4. db = [db EXCEPT ![p] = db[p]] /\ num = [num EXCEPT ![p] = num[p]]
      /\ res = [res EXCEPT ![p] = res[p]]
  BY DEF SInv
<1>5. CASE Load(p)
  <2>1. PICK d \in dbfile : db' = [db EXCEPT ![p] = d]
    BY <1>5 DEF Load, parsed
  <2>2. UNCHANGED freshVars /\ pc' = [pc EXCEPT ![p] = "messageNum"] /\ UNCHANGED <<dbfile, num, res>>
    BY <1>5 DEF Load
  <2>3. Good(Seed[p], d)'
    BY <1>1, GoodKept DEF SInv
  <2>4. ProcInv(p)'
    BY <1>3, <2>1, <2>2, <2>3 DEF ProcInv
  <2>. QED BY <1>1, <1>4, <2>1, <2>2, <2>4, Others
<1>6. CASE MessageNum(p)
  <2>1. /\ UNCHANGED freshVars /\ UNCHANGED <<dbfile, db, res>>
        /\ num' = [num EXCEPT ![p] = MESSAGE_NUM]
        /\ pc' = [pc EXCEPT ![p] =
                     IF MESSAGE_NUM = db[p].MESSAGE_NUM THEN "idle" ELSE "accountData"]
        /\ pc[p] = "messageNum"
    BY <1>6 DEF MessageNum
  <2>2. Good(Seed[p], db[p]) /\ db[p].MESSAGE_NUM \in Nat /\ db[p].MESSAGE_NUM <= MESSAGE_NUM
    BY <1>1, <2>1 DEF ProcInv, Good, KnowsPrefix, Dbs
  <2>3. Good(Seed[p], db[p])'
    BY <1>1, <2>1, <2>2, GoodKept
  <2>4. ProcInv(p)'
    BY <1>2, <1>3, <2>1, <2>2, <2>3 DEF ProcInv, freshVars
  <2>. QED BY <1>1, <1>4, <2>1, <2>4, Others
<1>7. CASE AccountData(p)
  <2>. DEFINE todo == [i \in rxrange(db[p].MESSAGE_NUM, num[p] - 1) \cap DOMAIN M |-> M[i]]
  <2>1. /\ UNCHANGED freshVars /\ UNCHANGED <<dbfile, db, num>>
        /\ res' = [res EXCEPT ![p] = todo]
        /\ pc' = [pc EXCEPT ![p] = "loop"]
        /\ pc[p] = "accountData"
    BY <1>7 DEF AccountData
  <2>2. Filling(Seed[p], db[p], num[p], todo)
    BY <1>1, <2>1, AnswerFills DEF ProcInv
  <2>. HIDE DEF todo
  <2>3. Filling(Seed[p], db'[p], num'[p], res'[p])
    BY <1>3, <2>1, <2>2
  <2>4. Filling(Seed[p], db[p], num[p], res[p])'
    BY <1>1, <2>3, FillingKept
  <2>5. ProcInv(p)'
    BY <1>3, <2>1, <2>4 DEF ProcInv
  <2>. QED BY <1>1, <1>4, <2>1, <2>5, Others
<1>8. CASE Process(p)
  <2>1. PICK i \in DOMAIN res[p] :
          /\ db' = [db EXCEPT ![p] = processMessage(p, db[p], res[p][i])]
          /\ res' = [res EXCEPT ![p] = [j \in DOMAIN res[p] \ {i} |-> res[p][j]]]
    BY <1>8 DEF Process, Heads
  <2>2. UNCHANGED freshVars /\ UNCHANGED <<dbfile, pc, num>> /\ pc[p] = "loop"
    BY <1>8 DEF Process
  <2>3. Filling(Seed[p], db[p], num[p], res[p])
    BY <1>1, <2>2 DEF ProcInv
  <2>4. Filling(Seed[p], processMessage(p, db[p], res[p][i]), num[p],
                [j \in DOMAIN res[p] \ {i} |-> res[p][j]])
    BY <1>1, <2>3, ProcessKeeps
  <2>5. Filling(Seed[p], db'[p], num'[p], res'[p])
    BY <1>3, <2>1, <2>2, <2>4
  <2>6. Filling(Seed[p], db[p], num[p], res[p])'
    BY <1>1, <2>5, FillingKept
  <2>7. ProcInv(p)'
    BY <2>2, <2>6 DEF ProcInv
  <2>8. pc' = [pc EXCEPT ![p] = "loop"]
    BY <2>2 DEF SInv
  <2>. QED BY <1>1, <1>4, <2>1, <2>2, <2>7, <2>8, Others
<1>9. CASE Truncate(p)
  <2>. DEFINE d == [db[p] EXCEPT !.MESSAGE_NUM = num[p]]
  <2>1. /\ UNCHANGED freshVars /\ UNCHANGED <<num, res>> /\ DOMAIN res[p] = {} /\ pc[p] = "loop"
        /\ db' = [db EXCEPT ![p] = d] /\ dbfile' = {} /\ pc' = [pc EXCEPT ![p] = "write"]
    BY <1>9 DEF Truncate, SyncedTo
  <2>2. Good(Seed[p], d)
    BY <1>1, <2>1, LoopEnds DEF ProcInv
  <2>. HIDE DEF d
  <2>3. Good(Seed[p], db'[p])
    BY <1>3, <2>1, <2>2
  <2>4. Good(Seed[p], db[p])'
    BY <1>1, <2>3, GoodKept
  <2>5. ProcInv(p)'
    BY <1>3, <2>1, <2>4 DEF ProcInv
  <2>. QED BY <1>1, <1>4, <2>1, <2>5, Others
<1>10. CASE Write(p)
  <2>1. /\ UNCHANGED freshVars /\ UNCHANGED <<db, num, res>> /\ pc[p] = "write"
        /\ \A d \in dbfile' : d \in dbfile \/ d = db[p]
        /\ pc' = [pc EXCEPT ![p] = "idle"]
    BY <1>10 DEF Write
  <2>2. Good(Seed[p], db[p])
    BY <1>1, <2>1 DEF ProcInv
  <2>3. ProcInv(p)'
    BY <1>3, <2>1 DEF ProcInv
  <2>. QED BY <1>1, <1>4, <2>1, <2>2, <2>3, Others
<1>11. CASE Crash(p)
  <2>1. /\ UNCHANGED freshVars /\ UNCHANGED dbfile
        /\ pc' = [pc EXCEPT ![p] = "idle"] /\ db' = [db EXCEPT ![p] = emptyDb]
        /\ num' = [num EXCEPT ![p] = 0] /\ res' = [res EXCEPT ![p] = noAnswer]
    BY <1>11 DEF Crash
  <2>2. ProcInv(p)'
    BY <1>3, <2>1 DEF ProcInv
  <2>. QED BY <1>1, <2>1, <2>2, Others
<1>. QED BY <1>5, <1>6, <1>7, <1>8, <1>9, <1>10, <1>11 DEF Command

LEMMA ChainInv ==
    ASSUME IInv, SInv, [FreshNext]_freshVars, UNCHANGED clientVars
    PROVE  SInv'
<1>1. \A p \in Procs : ProcInv(p)'
  BY ProcKept DEF clientVars
<1>2. \A d \in dbfile, p \in Procs : Good(Seed[p], d)'
  BY GoodKept, SeedAssumption DEF SInv
<1>. QED BY <1>1, <1>2 DEF SInv, clientVars

LEMMA SyncInvariant ==
    ASSUME OneSeed
    PROVE  SyncSpec => [](IInv /\ FInv /\ SInv)
<1>1. SyncInit => SInv
  BY SyncStart
<1>2. IInv /\ FInv /\ SInv /\ [SyncNext]_syncVars => SInv'
  <2>. SUFFICES ASSUME IInv, FInv, SInv, [SyncNext]_syncVars PROVE SInv'
    OBVIOUS
  <2>1. CASE Chain
    BY <2>1, ChainInv DEF Chain, FreshNext
  <2>2. ASSUME NEW p \in Procs, Command(p) PROVE SInv'
    BY <2>2, CommandInv
  <2>3. CASE UNCHANGED syncVars
    BY <2>3, ChainInv DEF syncVars
  <2>. QED BY <2>1, <2>2, <2>3 DEF SyncNext
<1>. QED BY <1>1, <1>2, SyncContract, PTL DEF SyncSpec

\* Processes of one seed, however many, however they interleave, crash and
\* tear the file, in whatever order the node answers: what syncData() loads
\* from db.json is whole and misses nothing of the messages it counts.
THEOREM DbMissesNothing ==
    ASSUME OneSeed
    PROVE  SyncSpec => []NothingMissed
<1>1. SInv => NothingMissed
  BY DEF SInv, NothingMissed, parsed, Good
<1>. QED BY <1>1, SyncInvariant, PTL

-----------------------------------------------------------------------------
\* When the node answers in message order, a db is always that of a prefix.
Exact(privkey, d) == d.assets = PrefixAssets(privkey, d.MESSAGE_NUM)

\* Inside the loop, that of the messages already processed.
Following(privkey, d, n, todo) ==
    \E c \in Nat : c <= n /\ DOMAIN todo = c .. n - 1 /\ d.assets = PrefixAssets(privkey, c)

ProcExact(p) ==
    /\ pc[p] \in {"messageNum", "accountData", "write"} => Exact(Seed[p], db[p])
    /\ pc[p] = "loop" => Following(Seed[p], db[p], num[p], res[p])

EInv ==
    /\ \A d \in dbfile, p \in Procs : Exact(Seed[p], d)
    /\ \A p \in Procs : ProcExact(p)

LEMMA ExactKept ==
    ASSUME IInv, [FreshNext]_freshVars, NEW k \in PrivKeys
    PROVE  \A d : Good(k, d) /\ Exact(k, d) => Exact(k, d)'
<1>. SUFFICES ASSUME NEW d, Good(k, d), Exact(k, d)
              PROVE  Exact(k, d)'
  OBVIOUS
<1>1. d.MESSAGE_NUM \in Nat /\ d.MESSAGE_NUM <= MESSAGE_NUM
  BY DEF Good, KnowsPrefix, Dbs
<1>. QED BY <1>1, PrefixKept DEF Exact

LEMMA FollowingKept ==
    ASSUME IInv, [FreshNext]_freshVars, NEW k \in PrivKeys
    PROVE  \A d, n, todo : n \in Nat /\ n <= MESSAGE_NUM /\ Following(k, d, n, todo)
                              => Following(k, d, n, todo)'
<1>. SUFFICES ASSUME NEW d, NEW n \in Nat, NEW todo, n <= MESSAGE_NUM, Following(k, d, n, todo)
              PROVE  Following(k, d, n, todo)'
  OBVIOUS
<1>1. PICK c \in Nat : c <= n /\ DOMAIN todo = c .. n - 1 /\ d.assets = PrefixAssets(k, c)
  BY DEF Following
<1>2. c <= MESSAGE_NUM
  BY <1>1, ChainPrefix
<1>3. d.assets = PrefixAssets(k, c)'
  BY <1>1, <1>2, PrefixKept
<1>. QED BY <1>1, <1>3 DEF Following

\* What message c does to the unspent notes of the messages below it.
LEMMA AssetsStep ==
    ASSUME IInv, FInv, NEW p \in Procs, NEW c \in DOMAIN M, NEW d,
           d.assets = PrefixAssets(Seed[p], c), d \in Dbs
    PROVE  processMessage(p, d, M[c]).assets = PrefixAssets(Seed[p], c + 1)
<1>. DEFINE k     == Seed[p]
            nulls == Values(M[c].nullifiers)
            kept  == {a \in d.assets : nullifierOf(a) \notin nulls}
            new   == {a \in decrypted(k, M[c]) : \A b \in kept : nullifierOf(b) # nullifierOf(a)}
<1>1. k \in PrivKeys /\ MESSAGE_NUM \in Nat /\ DOMAIN M = 0 .. MESSAGE_NUM - 1
  BY SeedAssumption DEF IInv, TypeOK, LogIsLedger
<1>2. processMessage(p, d, M[c]).assets = kept \cup new
  BY DEF processMessage, Dbs
<1>3. Prefix(c + 1) = Prefix(c) \cup {c} /\ c \in Nat
  BY <1>1 DEF Prefix
<1>4. PrefixNullifiers(c + 1) = PrefixNullifiers(c) \cup nulls
  BY <1>3 DEF PrefixNullifiers
<1>5. kept \subseteq PrefixAssets(k, c + 1)
  BY <1>3, <1>4 DEF PrefixAssets
<1>6. \A a \in decrypted(k, M[c]) : nullifierOf(a) \notin PrefixNullifiers(c + 1)
  <2>1. SUFFICES ASSUME NEW a \in decrypted(k, M[c]), NEW i \in DOMAIN M, i < c + 1,
                        NEW q \in DOMAIN M[i].nullifiers, M[i].nullifiers[q] = nullifierOf(a)
                 PROVE  FALSE
    BY DEF PrefixNullifiers, Prefix, Values
  <2>2. PICK r \in DOMAIN M[c].notes : M[c].notes[r] = a /\ a.pubkey = PubKey(k)
    BY DEF decrypted, Values
  <2>3. nullifierOf(a) \in NullifierOf(a)
    BY <1>1, <2>2, OwnNullifier DEF NullifierOf
  <2>4. Hits(i, q, c, r)
    BY <2>1, <2>2, <2>3 DEF Hits
  <2>5. c < i
    BY <2>4, HitsOne DEF OneNotePerNullifier
  <2>. QED BY <1>1, <1>3, <2>1, <2>5
<1>7. new \subseteq PrefixAssets(k, c + 1)
  BY <1>3, <1>6 DEF PrefixAssets
<1>8. ASSUME NEW a \in PrefixAssets(k, c + 1) PROVE a \in kept \cup new
  <2>1. nullifierOf(a) \notin PrefixNullifiers(c) /\ nullifierOf(a) \notin nulls
    BY <1>4, <1>8 DEF PrefixAssets
  <2>2. PICK i \in Prefix(c + 1) : a \in decrypted(k, M[i])
    BY <1>8 DEF PrefixAssets
  <2>3. CASE i \in Prefix(c)
    BY <2>1, <2>2, <2>3 DEF PrefixAssets
  <2>4. CASE a \in decrypted(k, M[c])
    <3>1. Announced(k, c + 1, a)
      BY <1>3, <2>4 DEF Announced
    <3>2. \A b \in kept : Announced(k, c, b)
      BY DEF PrefixAssets, Announced
    <3>3. \A b \in kept : nullifierOf(b) = nullifierOf(a) => b = a
      BY <1>1, <3>1, <3>2, SameNullifier
    <3>. QED BY <2>4, <3>3
  <2>. QED BY <1>3, <2>2, <2>3, <2>4
<1>. HIDE DEF kept, new
<1>9. kept \cup new = PrefixAssets(k, c + 1)
  BY <1>5, <1>7, <1>8
<1>. QED BY <1>2, <1>9

\* One round of the loop, on the first message of what is left.
LEMMA ProcessFollows ==
    ASSUME IInv, FInv, Sorted, NEW p \in Procs, NEW d, NEW n, NEW todo,
           Filling(Seed[p], d, n, todo), Following(Seed[p], d, n, todo), NEW i \in Heads(DOMAIN todo)
    PROVE  Following(Seed[p], processMessage(p, d, todo[i]), n,
                     [j \in DOMAIN todo \ {i} |-> todo[j]])
<1>. DEFINE rest == [j \in DOMAIN todo \ {i} |-> todo[j]]
<1>1. PICK c \in Nat : c <= n /\ DOMAIN todo = c .. n - 1 /\ d.assets = PrefixAssets(Seed[p], c)
  BY DEF Following
<1>2. i \in c .. n - 1 /\ (\A j \in c .. n - 1 : i <= j) /\ n \in Nat /\ d \in Dbs
  BY <1>1 DEF Heads, Filling
<1>3. i = c /\ c + 1 <= n /\ c + 1 \in Nat
  BY <1>1, <1>2
<1>4. todo[i] = M[c] /\ c \in DOMAIN M
  BY <1>1, <1>2, <1>3 DEF Filling, Prefix
<1>5. processMessage(p, d, todo[i]).assets = PrefixAssets(Seed[p], c + 1)
  BY <1>1, <1>2, <1>4, AssetsStep
<1>6. DOMAIN rest = c + 1 .. n - 1
  BY <1>1, <1>2, <1>3
<1>. HIDE DEF rest
<1>7. Following(Seed[p], processMessage(p, d, todo[i]), n, rest)
  BY <1>3, <1>5, <1>6 DEF Following
<1>. QED BY <1>7 DEF rest

LEMMA ProcExactKept ==
    ASSUME IInv, [FreshNext]_freshVars, SInv, EInv, NEW p \in Procs,
           pc'[p] = pc[p], db'[p] = db[p], num'[p] = num[p], res'[p] = res[p]
    PROVE  ProcExact(p)'
<1>1. Seed[p] \in PrivKeys /\ ProcInv(p) /\ ProcExact(p)
  BY SeedAssumption DEF SInv, EInv
<1>2. pc[p] \in {"messageNum", "accountData", "write"} => Exact(Seed[p], db[p])'
  BY <1>1, ExactKept DEF ProcInv, ProcExact
<1>3. pc[p] = "loop" => Following(Seed[p], db[p], num[p], res[p])'
  BY <1>1, FollowingKept DEF ProcInv, ProcExact, Filling
<1>. QED BY <1>2, <1>3 DEF ProcExact, Exact, Following

LEMMA OthersExact ==
    ASSUME IInv, [FreshNext]_freshVars, SInv, EInv, OneSeed, NEW p \in Procs,
           \A q \in Procs : q # p =>
               pc'[q] = pc[q] /\ db'[q] = db[q] /\ num'[q] = num[q] /\ res'[q] = res[q],
           \A d \in dbfile' : d \in dbfile \/ (Good(Seed[p], d) /\ Exact(Seed[p], d)),
           ProcExact(p)'
    PROVE  EInv'
<1>1. ASSUME NEW q \in Procs PROVE ProcExact(q)'
  <2>1. CASE q = p
    BY <2>1
  <2>2. CASE q # p
    BY <2>2, ProcExactKept
  <2>. QED BY <2>1, <2>2
<1>2. ASSUME NEW e \in dbfile', NEW q \in Procs PROVE Exact(Seed[q], e)'
  <2>1. Seed[q] \in PrivKeys /\ Seed[q] = Seed[p]
    BY SeedAssumption DEF OneSeed
  <2>2. Good(Seed[q], e) /\ Exact(Seed[q], e)
    BY <2>1 DEF SInv, EInv
  <2>. QED BY <2>1, <2>2, ExactKept
<1>. QED BY <1>1, <1>2 DEF EInv

LEMMA CommandExact ==
    ASSUME IInv, FInv, SInv, EInv, OneSeed, Sorted, NEW p \in Procs, Command(p)
    PROVE  EInv'
<1>1. [FreshNext]_freshVars /\ Seed[p] \in PrivKeys /\ ProcInv(p) /\ ProcExact(p)
  BY SeedAssumption, SyncIsFresh DEF SyncNext, SInv, EInv
<1>2. /\ pc \in [Procs -> {"idle", "messageNum", "accountData", "loop", "write"}]
      /\ DOMAIN db = Procs /\ DOMAIN num = Procs /\ DOMAIN res = Procs
  BY DEF SInv
<1>3. CASE Load(p)
  <2>1. PICK d \in dbfile : db' = [db EXCEPT ![p] = d]
    BY <1>3 DEF Load, parsed
  <2>2. UNCHANGED freshVars /\ pc' = [pc EXCEPT ![p] = "messageNum"] /\ UNCHANGED <<dbfile, num, res>>
    BY <1>3 DEF Load
  <2>3. Exact(Seed[p], d)'
    BY <1>1, ExactKept DEF SInv, EInv
  <2>4. ProcExact(p)'
    BY <1>2, <2>1, <2>2, <2>3 DEF ProcExact
  <2>. QED BY <1>1, <1>2, <2>1, <2>2, <2>4, OthersExact
<1>4. CASE MessageNum(p)
  <2>1. /\ UNCHANGED freshVars /\ UNCHANGED <<dbfile, db, res>>
        /\ num' = [num EXCEPT ![p] = MESSAGE_NUM]
        /\ pc' = [pc EXCEPT ![p] =
                     IF MESSAGE_NUM = db[p].MESSAGE_NUM THEN "idle" ELSE "accountData"]
        /\ pc[p] = "messageNum"
    BY <1>4 DEF MessageNum
  <2>2. Exact(Seed[p], db[p])'
    BY <1>1, <2>1, ExactKept DEF ProcInv, ProcExact, Exact
  <2>3. ProcExact(p)'
    BY <1>2, <2>1, <2>2 DEF ProcExact
  <2>. QED BY <1>1, <1>2, <2>1, <2>3, OthersExact
<1>5. CASE AccountData(p)
  <2>. DEFINE c == db[p].MESSAGE_NUM
  <2>1. /\ UNCHANGED freshVars /\ UNCHANGED <<dbfile, db, num>>
        /\ res' = [res EXCEPT ![p] = [i \in rxrange(c, num[p] - 1) \cap DOMAIN M |-> M[i]]]
        /\ pc' = [pc EXCEPT ![p] = "loop"]
        /\ pc[p] = "accountData"
    BY <1>5 DEF AccountData
  <2>2. /\ num[p] \in Nat /\ num[p] <= MESSAGE_NUM /\ c \in Nat /\ c < num[p]
        /\ db[p].assets = PrefixAssets(Seed[p], c)
    BY <1>1, <2>1 DEF ProcInv, ProcExact, Exact, Good, Dbs
  <2>3. DOMAIN res'[p] = c .. num[p] - 1
    BY <1>2, <2>1, <2>2, PrefixSplit DEF rxrange
  <2>4. Following(Seed[p], db[p], num[p], res'[p])
    BY <2>2, <2>3 DEF Following
  <2>5. Following(Seed[p], db[p], num[p], res[p])'
    BY <1>1, <2>1, <2>2, <2>4, FollowingKept
  <2>6. ProcExact(p)'
    BY <1>2, <2>1, <2>5 DEF ProcExact
  <2>. QED BY <1>1, <1>2, <2>1, <2>6, OthersExact
<1>6. CASE Process(p)
  <2>1. PICK i \in Heads(DOMAIN res[p]) :
          /\ db' = [db EXCEPT ![p] = processMessage(p, db[p], res[p][i])]
          /\ res' = [res EXCEPT ![p] = [j \in DOMAIN res[p] \ {i} |-> res[p][j]]]
    BY <1>6 DEF Process
  <2>2. UNCHANGED freshVars /\ UNCHANGED <<dbfile, pc, num>> /\ pc[p] = "loop"
    BY <1>6 DEF Process
  <2>3. Filling(Seed[p], db[p], num[p], res[p]) /\ Following(Seed[p], db[p], num[p], res[p])
    BY <1>1, <2>2 DEF ProcInv, ProcExact
  <2>4. Following(Seed[p], processMessage(p, db[p], res[p][i]), num[p],
                  [j \in DOMAIN res[p] \ {i} |-> res[p][j]])
    BY <2>3, ProcessFollows
  <2>5. Following(Seed[p], db'[p], num'[p], res'[p])
    BY <1>2, <2>1, <2>2, <2>4
  <2>6. num'[p] \in Nat /\ num'[p] <= MESSAGE_NUM
    BY <2>2, <2>3 DEF Filling
  <2>7. Following(Seed[p], db[p], num[p], res[p])'
    BY <1>1, <2>5, <2>6, FollowingKept
  <2>8. ProcExact(p)'
    BY <2>2, <2>7 DEF ProcExact
  <2>. QED BY <1>1, <1>2, <2>1, <2>2, <2>8, OthersExact
<1>7. CASE Truncate(p)
  <2>. DEFINE d == [db[p] EXCEPT !.MESSAGE_NUM = num[p]]
  <2>1. /\ UNCHANGED freshVars /\ UNCHANGED <<num, res>> /\ DOMAIN res[p] = {} /\ pc[p] = "loop"
        /\ db' = [db EXCEPT ![p] = d] /\ dbfile' = {} /\ pc' = [pc EXCEPT ![p] = "write"]
    BY <1>7 DEF Truncate, SyncedTo
  <2>2. Filling(Seed[p], db[p], num[p], res[p]) /\ Following(Seed[p], db[p], num[p], res[p])
    BY <1>1, <2>1 DEF ProcInv, ProcExact
  <2>3. PICK c \in Nat : c <= num[p] /\ c .. num[p] - 1 = {} /\ db[p].assets = PrefixAssets(Seed[p], c)
    BY <2>1, <2>2 DEF Following
  <2>4. c = num[p]
    BY <2>2, <2>3 DEF Filling
  <2>5. d.assets = db[p].assets /\ d.MESSAGE_NUM = num[p]
    BY <2>2 DEF Filling, Dbs
  <2>6. Exact(Seed[p], d) /\ Good(Seed[p], d)
    BY <1>1, <2>1, <2>2, <2>3, <2>4, <2>5, LoopEnds DEF Exact
  <2>. HIDE DEF d
  <2>7. Exact(Seed[p], db'[p]) /\ Good(Seed[p], db'[p])
    BY <1>2, <2>1, <2>6
  <2>8. Exact(Seed[p], db[p])'
    BY <1>1, <2>7, ExactKept
  <2>9. ProcExact(p)'
    BY <1>2, <2>1, <2>8 DEF ProcExact
  <2>. QED BY <1>1, <1>2, <2>1, <2>9, OthersExact
<1>8. CASE Write(p)
  <2>1. /\ UNCHANGED freshVars /\ UNCHANGED <<db, num, res>> /\ pc[p] = "write"
        /\ \A d \in dbfile' : d \in dbfile \/ d = db[p]
        /\ pc' = [pc EXCEPT ![p] = "idle"]
    BY <1>8 DEF Write
  <2>2. Good(Seed[p], db[p]) /\ Exact(Seed[p], db[p])
    BY <1>1, <2>1 DEF ProcInv, ProcExact
  <2>3. ProcExact(p)'
    BY <1>2, <2>1 DEF ProcExact
  <2>. QED BY <1>1, <1>2, <2>1, <2>2, <2>3, OthersExact
<1>9. CASE Crash(p)
  <2>1. /\ UNCHANGED freshVars /\ UNCHANGED dbfile
        /\ pc' = [pc EXCEPT ![p] = "idle"] /\ db' = [db EXCEPT ![p] = emptyDb]
        /\ num' = [num EXCEPT ![p] = 0] /\ res' = [res EXCEPT ![p] = noAnswer]
    BY <1>9 DEF Crash
  <2>2. ProcExact(p)'
    BY <1>2, <2>1 DEF ProcExact
  <2>. QED BY <1>1, <1>2, <2>1, <2>2, OthersExact
<1>. QED BY <1>3, <1>4, <1>5, <1>6, <1>7, <1>8, <1>9 DEF Command

LEMMA ChainExact ==
    ASSUME IInv, SInv, EInv, [FreshNext]_freshVars, UNCHANGED clientVars
    PROVE  EInv'
<1>1. \A p \in Procs : ProcExact(p)'
  BY ProcExactKept DEF clientVars
<1>2. \A d \in dbfile, p \in Procs : Exact(Seed[p], d)'
  BY ExactKept, SeedAssumption DEF SInv, EInv
<1>. QED BY <1>1, <1>2 DEF EInv, clientVars

\* When the node answers in message order, the assets in db.json are exactly
\* the notes of the seed that the counted messages do not spend.
THEOREM DbHoldsUnspent ==
    ASSUME OneSeed, Sorted
    PROVE  SyncSpec => []AssetsAreUnspent
<1>1. SyncInit => EInv
  <2>. SUFFICES ASSUME SyncInit PROVE EInv
    OBVIOUS
  <2>1. M = [i \in {} |-> <<>>]
    BY DEF SyncInit, FreshInit, Init
  <2>2. \A k : Exact(k, emptyDb)
    BY <2>1 DEF Exact, emptyDb, PrefixAssets, Prefix
  <2>. QED BY <2>2 DEF SyncInit, EInv, ProcExact
<1>2. IInv /\ FInv /\ SInv /\ EInv /\ [SyncNext]_syncVars => EInv'
  <2>. SUFFICES ASSUME IInv, FInv, SInv, EInv, [SyncNext]_syncVars PROVE EInv'
    OBVIOUS
  <2>1. CASE Chain
    BY <2>1, ChainExact DEF Chain, FreshNext
  <2>2. ASSUME NEW p \in Procs, Command(p) PROVE EInv'
    BY <2>2, CommandExact
  <2>3. CASE UNCHANGED syncVars
    BY <2>3, ChainExact DEF syncVars
  <2>. QED BY <2>1, <2>2, <2>3 DEF SyncNext
<1>3. EInv => AssetsAreUnspent
  BY DEF EInv, AssetsAreUnspent, parsed, Exact
<1>. QED BY <1>1, <1>2, <1>3, SyncInvariant, PTL DEF SyncSpec

-----------------------------------------------------------------------------
\* The chain with nothing rolled back, and what is true of the contract there.
last == history[Len(history)]

Longest == INSTANCE FreshPool_proofs WITH
            U <- last.U, N <- last.N, MESSAGE_NUM <- last.MESSAGE_NUM,
            M <- last.M, funds <- last.funds

\* The chain is in this state.
At(s) ==
    /\ U = s.U /\ N = s.N /\ MESSAGE_NUM = s.MESSAGE_NUM /\ M = s.M /\ funds = s.funds

\* A note of a log that belongs to a private key.
Owned(log, privkey, a) == \E i \in DOMAIN log : a \in decrypted(privkey, log[i])

UtxosOf(log) == UNION {Values(log[i].utxos) : i \in DOMAIN log}

\* What the invariants of the contract say of its log: a message has the
\* hashes of its notes, no two notes of one owner have one nullifier, and a
\* nullifier comes after its note.
GoodLog(log) ==
    /\ DOMAIN log \subseteq Nat
    /\ \A i \in DOMAIN log :
          /\ log[i] \in Messages
          /\ log[i].utxos = HashesOf(log[i].notes)
    /\ \A k \in PrivKeys, i, j \in DOMAIN log :
          \A a \in decrypted(k, log[i]) :
             /\ nullifierOf(a) \in Values(log[j].nullifiers) => i < j
             /\ \A b \in decrypted(k, log[j]) : nullifierOf(a) = nullifierOf(b) => a = b

\* Every state the chain can be in has the beginning of the longest log, and
\* what the contract promises holds of the longest one.
HistoryInv ==
    /\ history \in Seq({history[i] : i \in DOMAIN history})
    /\ tip \in 1 .. Len(history)
    /\ At(history[tip])
    /\ \A i \in 1 .. Len(history) :
          /\ history[i].MESSAGE_NUM \in Nat
          /\ DOMAIN history[i].M = 0 .. history[i].MESSAGE_NUM - 1
          /\ \A j \in 0 .. history[i].MESSAGE_NUM - 1 : history[i].M[j] = last.M[j]
          /\ \A j \in 1 .. Len(history) :
                i <= j => history[i].MESSAGE_NUM <= history[j].MESSAGE_NUM
    /\ Longest!IInv /\ Longest!FInv
    /\ GoodLog(last.M)

\* The log is the beginning of a longer one.
Begins(log, longer) ==
    DOMAIN log \subseteq DOMAIN longer /\ \A i \in DOMAIN log : longer[i] = log[i]

\* A db of a seed: its assets are notes whose hashes it has seen, and it has
\* all of them but those whose nullifiers it has seen.
Fits(log, privkey, d) ==
    /\ d \in Dbs
    /\ d.utxos \subseteq UtxosOf(log)
    /\ \A a \in d.assets : Owned(log, privkey, a) /\ UTXOHasher(a) \in d.utxos
    /\ \A a : Owned(log, privkey, a) /\ UTXOHasher(a) \in d.utxos /\ nullifierOf(a) \notin d.nullifiers
                 => a \in d.assets

\* None of its assets is spent by a message below n that is not in "todo".
Clean(log, d, n, todo) ==
    /\ n \in Nat /\ (0 .. n - 1) \subseteq DOMAIN log
    /\ \A a \in d.assets, j \in DOMAIN log :
          j < n /\ j \notin todo => nullifierOf(a) \notin Values(log[j].nullifiers)

\* A db outside the loop.
Settled(log, privkey, d) == Fits(log, privkey, d) /\ Clean(log, d, d.MESSAGE_NUM, {})

\* A db inside the loop: what is left to process comes after what is not.
Catching(log, privkey, d, n, todo) ==
    /\ Fits(log, privkey, d)
    /\ Clean(log, d, n, DOMAIN todo)
    /\ DOMAIN todo \subseteq DOMAIN log
    /\ \A i \in DOMAIN todo : todo[i] = log[i]
    /\ \A i \in DOMAIN todo, j \in DOMAIN log : j < n /\ j \notin DOMAIN todo => j < i

\* What holds of a process at each await of syncData().
ProcRoll(log, number, p) ==
    /\ pc[p] \in {"messageNum", "accountData", "write"} => Settled(log, Seed[p], db[p])
    /\ pc[p] = "accountData" => num[p] \in Nat /\ num[p] <= number
    /\ pc[p] = "loop" => Catching(log, Seed[p], db[p], num[p], res[p])

\* What db.json and the processes hold.
DbInv(log, number) ==
    /\ pc \in [Procs -> {"idle", "messageNum", "accountData", "loop", "write"}]
    /\ db = [p \in Procs |-> db[p]]
    /\ num = [p \in Procs |-> num[p]]
    /\ res = [p \in Procs |-> res[p]]
    /\ \A d \in dbfile : Clean(log, d, d.MESSAGE_NUM, {})
    /\ \A d \in dbfile, p \in Procs : Settled(log, Seed[p], d)
    /\ \A p \in Procs : ProcRoll(log, number, p)

-----------------------------------------------------------------------------
LEMMA OwnedNote ==
    ASSUME NEW log, GoodLog(log), NEW k, NEW i \in DOMAIN log, NEW a \in decrypted(k, log[i])
    PROVE  /\ a \in Notes /\ a.pubkey = PubKey(k)
           /\ UTXOHasher(a) \in Values(log[i].utxos)
<1>1. PICK q \in DOMAIN log[i].notes : log[i].notes[q] = a /\ a.pubkey = PubKey(k)
  BY DEF decrypted, Values
<1>2. log[i] \in Messages /\ log[i].utxos = HashesOf(log[i].notes)
  BY DEF GoodLog
<1>3. a \in Notes
  BY <1>1, <1>2 DEF Messages
<1>. QED BY <1>1, <1>2, <1>3 DEF HashesOf, Values

\* A note whose hash is in a message is a note of the message.
LEMMA HashedNote ==
    ASSUME NEW log, GoodLog(log), NEW i \in DOMAIN log, NEW k, NEW a \in Notes, a.pubkey = PubKey(k),
           UTXOHasher(a) \in Values(log[i].utxos)
    PROVE  a \in decrypted(k, log[i])
<1>1. log[i] \in Messages /\ log[i].utxos = HashesOf(log[i].notes)
  BY DEF GoodLog
<1>2. PICK q \in DOMAIN log[i].notes : UTXOHasher(a) = UTXOHasher(log[i].notes[q])
  BY <1>1 DEF HashesOf, Values
<1>3. log[i].notes[q] \in Notes
  BY <1>1 DEF Messages
<1>4. log[i].notes[q] = a
  BY <1>2, <1>3, HasherInjective
<1>. QED BY <1>4 DEF decrypted, Values

\* A longer log changes nothing for a db.
LEMMA FitsLonger ==
    ASSUME NEW log, NEW longer, GoodLog(log), GoodLog(longer), Begins(log, longer), NEW k
    PROVE  \A d : Fits(log, k, d) => Fits(longer, k, d)
<1>. SUFFICES ASSUME NEW d, Fits(log, k, d)
              PROVE  Fits(longer, k, d)
  OBVIOUS
<1>1. \A i \in DOMAIN log : i \in DOMAIN longer /\ longer[i] = log[i]
  BY DEF Begins
<1>2. d \in Dbs /\ d.utxos \subseteq UtxosOf(longer)
  BY <1>1 DEF Fits, UtxosOf
<1>3. \A a \in d.assets : Owned(longer, k, a) /\ UTXOHasher(a) \in d.utxos
  BY <1>1 DEF Fits, Owned
<1>4. ASSUME NEW a, Owned(longer, k, a), UTXOHasher(a) \in d.utxos, nullifierOf(a) \notin d.nullifiers
      PROVE  a \in d.assets
  <2>1. a \in Notes /\ a.pubkey = PubKey(k)
    BY <1>4, OwnedNote DEF Owned
  <2>2. PICK i \in DOMAIN log : UTXOHasher(a) \in Values(log[i].utxos)
    BY <1>4 DEF Fits, UtxosOf
  <2>3. Owned(log, k, a)
    BY <2>1, <2>2, HashedNote DEF Owned
  <2>. QED BY <1>4, <2>3 DEF Fits
<1>. QED BY <1>2, <1>3, <1>4 DEF Fits

LEMMA CleanLonger ==
    ASSUME NEW log, NEW longer, GoodLog(longer), Begins(log, longer)
    PROVE  \A d, n, todo : Clean(log, d, n, todo) => Clean(longer, d, n, todo)
<1>. SUFFICES ASSUME NEW d, NEW n, NEW todo, Clean(log, d, n, todo)
              PROVE  Clean(longer, d, n, todo)
  OBVIOUS
<1>1. \A i \in DOMAIN log : i \in DOMAIN longer /\ longer[i] = log[i]
  BY DEF Begins
<1>2. n \in Nat /\ (0 .. n - 1) \subseteq DOMAIN log
  BY DEF Clean
<1>3. \A j \in DOMAIN longer : j < n => j \in DOMAIN log
  BY <1>2 DEF GoodLog
<1>. QED BY <1>1, <1>2, <1>3 DEF Clean

LEMMA CatchingLonger ==
    ASSUME NEW log, NEW longer, GoodLog(log), GoodLog(longer), Begins(log, longer), NEW k
    PROVE  \A d, n, todo : Catching(log, k, d, n, todo) => Catching(longer, k, d, n, todo)
<1>. SUFFICES ASSUME NEW d, NEW n, NEW todo, Catching(log, k, d, n, todo)
              PROVE  Catching(longer, k, d, n, todo)
  OBVIOUS
<1>1. \A i \in DOMAIN log : i \in DOMAIN longer /\ longer[i] = log[i]
  BY DEF Begins
<1>2. n \in Nat /\ (0 .. n - 1) \subseteq DOMAIN log
  BY DEF Catching, Clean
<1>3. \A j \in DOMAIN longer : j < n => j \in DOMAIN log
  BY <1>2 DEF GoodLog
<1>4. Fits(longer, k, d) /\ Clean(longer, d, n, DOMAIN todo)
  BY FitsLonger, CleanLonger DEF Catching
<1>. QED BY <1>1, <1>3, <1>4 DEF Catching

LEMMA SettledLonger ==
    ASSUME NEW log, NEW longer, GoodLog(log), GoodLog(longer), Begins(log, longer), NEW k
    PROVE  \A d : Settled(log, k, d) => Settled(longer, k, d)
BY FitsLonger, CleanLonger DEF Settled

-----------------------------------------------------------------------------
\* One round of the loop.
LEMMA ProcessFits ==
    ASSUME NEW log, GoodLog(log), NEW p \in Procs, NEW d, Fits(log, Seed[p], d), NEW i \in DOMAIN log
    PROVE  Fits(log, Seed[p], processMessage(p, d, log[i]))
<1>. DEFINE k     == Seed[p]
            nulls == Values(log[i].nullifiers)
            kept  == {a \in d.assets : nullifierOf(a) \notin nulls}
            new   == {a \in decrypted(k, log[i]) : \A b \in kept : nullifierOf(b) # nullifierOf(a)}
            e     == processMessage(p, d, log[i])
<1>1. k \in PrivKeys /\ d \in Dbs /\ log[i] \in Messages
  BY SeedAssumption DEF GoodLog, Fits
<1>2. /\ e.utxos = d.utxos \cup Values(log[i].utxos)
      /\ e.nullifiers = d.nullifiers \cup nulls
      /\ e.assets = kept \cup new
      /\ e.MESSAGE_NUM = d.MESSAGE_NUM
      /\ e = [utxos |-> e.utxos, nullifiers |-> e.nullifiers, assets |-> e.assets,
              MESSAGE_NUM |-> e.MESSAGE_NUM]
  <2>1. e = [d EXCEPT !.utxos = @ \cup Values(log[i].utxos), !.nullifiers = @ \cup nulls,
                      !.assets = kept \cup new]
    BY DEF processMessage
  <2>. QED BY <1>1, <2>1 DEF Dbs
<1>3. /\ Values(log[i].utxos) \subseteq Hashes
      /\ nulls \subseteq Nullifiers
      /\ decrypted(k, log[i]) \subseteq Notes
  <2>1. /\ log[i].utxos \in UNION {[1 .. n -> Hashes] : n \in 0 .. 2}
        /\ log[i].nullifiers \in UNION {[1 .. n -> Nullifiers] : n \in 0 .. 2}
        /\ log[i].notes \in UNION {[1 .. n -> Notes] : n \in 0 .. 2}
    BY <1>1 DEF Messages
  <2>. QED BY <2>1 DEF Values, decrypted
<1>4. e \in Dbs
  BY <1>1, <1>2, <1>3 DEF Dbs
<1>5. e.utxos \subseteq UtxosOf(log)
  BY <1>2 DEF Fits, UtxosOf
<1>6. \A a \in e.assets : Owned(log, k, a) /\ UTXOHasher(a) \in e.utxos
  <2>1. \A a \in new : Owned(log, k, a) /\ UTXOHasher(a) \in e.utxos
    BY <1>2, OwnedNote DEF Owned
  <2>2. \A a \in kept : Owned(log, k, a) /\ UTXOHasher(a) \in e.utxos
    BY <1>2 DEF Fits
  <2>. QED BY <1>2, <2>1, <2>2
<1>7. ASSUME NEW a, Owned(log, k, a), UTXOHasher(a) \in e.utxos, nullifierOf(a) \notin e.nullifiers
      PROVE  a \in e.assets
  <2>1. nullifierOf(a) \notin nulls /\ nullifierOf(a) \notin d.nullifiers
    BY <1>2, <1>7
  <2>2. CASE UTXOHasher(a) \in d.utxos
    BY <1>2, <1>7, <2>1, <2>2 DEF Fits
  <2>3. CASE UTXOHasher(a) \in Values(log[i].utxos)
    <3>1. a \in Notes /\ a.pubkey = PubKey(k)
      BY <1>7, OwnedNote DEF Owned
    <3>2. a \in decrypted(k, log[i])
      BY <2>3, <3>1, HashedNote
    <3>3. \A b \in kept : nullifierOf(b) = nullifierOf(a) => b = a
      BY <1>1, <1>7 DEF Fits, Owned, GoodLog
    <3>. QED BY <1>2, <3>2, <3>3
  <2>. QED BY <1>2, <1>7, <2>2, <2>3
<1>. HIDE DEF e
<1>8. Fits(log, k, e)
  BY <1>4, <1>5, <1>6, <1>7 DEF Fits
<1>. QED BY <1>8 DEF e

LEMMA ProcessCatches ==
    ASSUME NEW log, GoodLog(log), Sorted, NEW p \in Procs
    PROVE  \A d, n, todo : Catching(log, Seed[p], d, n, todo) =>
              \A i \in Heads(DOMAIN todo) :
                 Catching(log, Seed[p], processMessage(p, d, todo[i]), n,
                          [j \in DOMAIN todo \ {i} |-> todo[j]])
<1>. SUFFICES ASSUME NEW d, NEW n, NEW todo, Catching(log, Seed[p], d, n, todo),
                     NEW i \in Heads(DOMAIN todo)
              PROVE  Catching(log, Seed[p], processMessage(p, d, todo[i]), n,
                              [j \in DOMAIN todo \ {i} |-> todo[j]])
  OBVIOUS
<1>. DEFINE k     == Seed[p]
            nulls == Values(log[i].nullifiers)
            kept  == {a \in d.assets : nullifierOf(a) \notin nulls}
            new   == {a \in decrypted(k, log[i]) : \A b \in kept : nullifierOf(b) # nullifierOf(a)}
            e     == processMessage(p, d, log[i])
            rest  == [j \in DOMAIN todo \ {i} |-> todo[j]]
<1>1. /\ k \in PrivKeys /\ d \in Dbs /\ i \in DOMAIN todo /\ i \in DOMAIN log /\ todo[i] = log[i]
      /\ \A j \in DOMAIN todo : i <= j
      /\ n \in Nat /\ (0 .. n - 1) \subseteq DOMAIN log /\ DOMAIN log \subseteq Nat
  BY SeedAssumption DEF Catching, Heads, Clean, Fits, GoodLog
<1>2. e.assets = kept \cup new
  <2>1. d \in Dbs
    BY <1>1
  <2>. QED BY <2>1 DEF processMessage, Dbs
<1>3. /\ DOMAIN rest = DOMAIN todo \ {i} /\ DOMAIN rest \subseteq DOMAIN log
      /\ \A j \in DOMAIN rest : rest[j] = log[j]
  BY DEF Catching
<1>4. \A j \in DOMAIN rest, l \in DOMAIN log : l < n /\ l \notin DOMAIN rest => l < j
  <2>1. SUFFICES ASSUME NEW j \in DOMAIN todo, j # i, NEW l \in DOMAIN log, l < n,
                        l = i \/ l \notin DOMAIN todo
                 PROVE  l < j
    BY <1>3
  <2>2. i <= j /\ j \in Nat /\ l \in Nat /\ i \in Nat
    BY <1>1, <1>3, <2>1
  <2>. QED BY <2>1, <2>2 DEF Catching
<1>5. ASSUME NEW a \in e.assets, NEW j \in DOMAIN log, j < n, j \notin DOMAIN rest
      PROVE  nullifierOf(a) \notin Values(log[j].nullifiers)
  <2>1. j = i \/ j \notin DOMAIN todo
    BY <1>3, <1>5
  <2>2. j <= i /\ i \in Nat /\ j \in Nat
    BY <1>1, <1>5, <2>1 DEF Catching
  <2>3. CASE a \in kept
    BY <1>5, <2>1, <2>3 DEF Catching, Clean
  <2>4. CASE a \in new
    BY <1>1, <2>2, <2>4 DEF GoodLog
  <2>. QED BY <1>2, <1>5, <2>3, <2>4
<1>6. Fits(log, k, e)
  BY <1>1, ProcessFits DEF Catching
<1>. HIDE DEF e, rest
<1>7. Clean(log, e, n, DOMAIN rest)
  BY <1>1, <1>5 DEF Clean
<1>8. Catching(log, k, e, n, rest)
  BY <1>3, <1>4, <1>6, <1>7 DEF Catching
<1>. QED BY <1>1, <1>8 DEF e, rest

\* The end of the loop, whatever the number is that the db counted before.
LEMMA CaughtUp ==
    ASSUME NEW log, NEW k, NEW d, NEW n, NEW todo, Catching(log, k, d, n, todo), DOMAIN todo = {}
    PROVE  Settled(log, k, [d EXCEPT !.MESSAGE_NUM = n])
<1>. DEFINE e == [d EXCEPT !.MESSAGE_NUM = n]
<1>1. d \in Dbs /\ n \in Nat
  BY DEF Catching, Fits, Clean
<1>2. /\ e.utxos = d.utxos /\ e.nullifiers = d.nullifiers /\ e.assets = d.assets
      /\ e.MESSAGE_NUM = n /\ e \in Dbs
  BY <1>1 DEF Dbs
<1>. HIDE DEF e
<1>3. Fits(log, k, e)
  BY <1>2 DEF Catching, Fits
<1>4. Clean(log, e, n, {})
  BY <1>2 DEF Catching, Clean
<1>5. Settled(log, k, e)
  BY <1>2, <1>3, <1>4 DEF Settled
<1>. QED BY <1>5 DEF e

\* An answer of a chain that is shorter or longer than the db thinks: the
\* first message it holds is not above the lower of the two numbers.
LEMMA AnswerCatches ==
    ASSUME NEW log, GoodLog(log), NEW k, NEW d, Settled(log, k, d), NEW number \in Nat,
           (0 .. number - 1) \subseteq DOMAIN log, NEW n \in Nat, n <= number
    PROVE  Catching(log, k, d, n, [i \in rxrange(d.MESSAGE_NUM, n - 1) \cap (0 .. number - 1) |-> log[i]])
<1>. DEFINE c    == d.MESSAGE_NUM
            todo == [i \in rxrange(c, n - 1) \cap (0 .. number - 1) |-> log[i]]
<1>1. d \in Dbs /\ c \in Nat /\ DOMAIN log \subseteq Nat
  BY DEF Settled, Clean, Fits, GoodLog
<1>2. DOMAIN todo = rxrange(c, n - 1) \cap (0 .. number - 1) /\ \A i \in DOMAIN todo : todo[i] = log[i]
  OBVIOUS
<1>3. \A j \in Nat : j < n /\ j \notin DOMAIN todo => j < c /\ \A i \in DOMAIN todo : j < i
  <2>1. CASE c <= n - 1
    <3>1. DOMAIN todo = c .. n - 1
      BY <1>1, <1>2, <2>1 DEF rxrange
    <3>. QED BY <1>1, <2>1, <3>1
  <2>2. CASE ~(c <= n - 1)
    <3>1. DOMAIN todo = (n - 1 .. c) \cap (0 .. number - 1)
      BY <1>1, <1>2, <2>2 DEF rxrange
    <3>2. \A j \in Nat : j < n /\ j \notin DOMAIN todo => j < n - 1
      BY <1>1, <2>2, <3>1
    <3>. QED BY <1>1, <2>2, <3>1, <3>2
  <2>. QED BY <2>1, <2>2
<1>4. (0 .. n - 1) \subseteq DOMAIN log /\ DOMAIN todo \subseteq DOMAIN log
  BY <1>2
<1>. HIDE DEF todo
<1>5. Clean(log, d, n, DOMAIN todo)
  BY <1>1, <1>3, <1>4 DEF Settled, Clean
<1>6. Catching(log, k, d, n, todo)
  BY <1>1, <1>2, <1>3, <1>4, <1>5 DEF Settled, Catching
<1>. QED BY <1>6 DEF todo

-----------------------------------------------------------------------------
\* The log of the contract is a good one.
LEMMA LogIsGood == IInv /\ FInv => GoodLog(M)
<1>. SUFFICES ASSUME IInv, FInv PROVE GoodLog(M)
  OBVIOUS
<1>1. DOMAIN M \subseteq Nat /\ \A i \in DOMAIN M : M[i] \in Messages /\ M[i].utxos = HashesOf(M[i].notes)
  BY DEF IInv, TypeOK, MessagesMatch
<1>2. ASSUME NEW k \in PrivKeys, NEW i \in DOMAIN M, NEW j \in DOMAIN M, NEW a \in decrypted(k, M[i]),
             nullifierOf(a) \in Values(M[j].nullifiers)
      PROVE  i < j
  <2>1. PICK r \in DOMAIN M[i].notes : M[i].notes[r] = a /\ a.pubkey = PubKey(k)
    BY DEF decrypted, Values
  <2>2. PICK q \in DOMAIN M[j].nullifiers : M[j].nullifiers[q] = nullifierOf(a)
    BY <1>2 DEF Values
  <2>3. nullifierOf(a) \in NullifierOf(a)
    BY <2>1, OwnNullifier DEF NullifierOf
  <2>4. Hits(j, q, i, r)
    BY <2>1, <2>2, <2>3 DEF Hits
  <2>. QED BY <2>4, HitsOne DEF OneNotePerNullifier
<1>3. ASSUME NEW k \in PrivKeys, NEW i \in DOMAIN M, NEW j \in DOMAIN M, NEW a \in decrypted(k, M[i]),
             NEW b \in decrypted(k, M[j]), nullifierOf(a) = nullifierOf(b)
      PROVE  a = b
  <2>1. i \in Prefix(i + 1) /\ j \in Prefix(j + 1)
    BY <1>1 DEF Prefix
  <2>2. Announced(k, i + 1, a) /\ Announced(k, j + 1, b)
    BY <2>1 DEF Announced
  <2>. QED BY <1>3, <2>2, SameNullifier
<1>. QED BY <1>1, <1>2, <1>3 DEF GoodLog

\* Where nothing is rolled back, the invariants are those of the chain.
LEMMA LastIsNow == At(last) => (IInv /\ FInv <=> Longest!IInv /\ Longest!FInv)
<1>. SUFFICES ASSUME At(last)
              PROVE  IInv /\ FInv <=> Longest!IInv /\ Longest!FInv
  OBVIOUS
<1>1. U = last.U /\ N = last.N /\ MESSAGE_NUM = last.MESSAGE_NUM /\ M = last.M /\ funds = last.funds
  BY DEF At
<1>2. /\ \A s : Longest!Values(s) = Values(s)
      /\ \A n : Longest!NullifierOf(n) = NullifierOf(n)
      /\ \A n : Longest!UTXOHasher(n) = UTXOHasher(n)
      /\ Longest!Notes = Notes /\ Longest!Nullifiers = Nullifiers
  BY DEF Values, Longest!Values, NullifierOf, Longest!NullifierOf, UTXOHasher, Longest!UTXOHasher,
         Notes, Candidates, Num2Bits64, Field, PubKeys, Secrets, Nullifiers,
         Longest!Notes, Longest!Candidates, Longest!Num2Bits64, Longest!Field, Longest!PubKeys, Longest!Secrets,
         Longest!Nullifiers
<1>3. Longest!Hashes = Hashes
  BY <1>2 DEF Hashes, Longest!Hashes
<1>4. Longest!Messages = Messages /\ \A n : Longest!HashesOf(n) = HashesOf(n)
  BY <1>2, <1>3 DEF Messages, Longest!Messages, HashesOf, Longest!HashesOf
<1>5. TypeOK <=> Longest!TypeOK
  BY <1>1, <1>2, <1>3, <1>4 DEF TypeOK, Longest!TypeOK
<1>6. LogIsLedger <=> Longest!LogIsLedger
  BY <1>1, <1>2 DEF LogIsLedger, Longest!LogIsLedger
<1>7. NoDoubleSpend <=> Longest!NoDoubleSpend
  BY <1>1, <1>2 DEF NoDoubleSpend, Longest!NoDoubleSpend
<1>8. MessagesMatch <=> Longest!MessagesMatch
  BY <1>1, <1>4 DEF MessagesMatch, Longest!MessagesMatch
<1>9. SpentWasCreated <=> Longest!SpentWasCreated
  BY <1>1, <1>2 DEF SpentWasCreated, Longest!SpentWasCreated
<1>10. SecretsAreDrawn <=> Longest!SecretsAreDrawn
  BY <1>1 DEF SecretsAreDrawn, Longest!SecretsAreDrawn
<1>11. SecretsDiffer <=> Longest!SecretsDiffer
  BY <1>1 DEF SecretsDiffer, Longest!SecretsDiffer
<1>. QED BY <1>5, <1>6, <1>7, <1>8, <1>9, <1>10, <1>11 DEF IInv, FInv, Longest!IInv, Longest!FInv

LEMMA TipState ==
    ASSUME HistoryInv
    PROVE  /\ tip \in 1 .. Len(history) /\ Len(history) \in Nat
           /\ U = history[tip].U /\ N = history[tip].N
           /\ MESSAGE_NUM = history[tip].MESSAGE_NUM /\ M = history[tip].M
           /\ funds = history[tip].funds
           /\ MESSAGE_NUM \in Nat
           /\ DOMAIN M = 0 .. MESSAGE_NUM - 1
           /\ Begins(M, last.M)
           /\ DOMAIN last.M = 0 .. last.MESSAGE_NUM - 1
<1>1. Len(history) \in Nat /\ tip \in 1 .. Len(history)
  BY DEF HistoryInv
<1>2. /\ U = history[tip].U /\ N = history[tip].N /\ MESSAGE_NUM = history[tip].MESSAGE_NUM
      /\ M = history[tip].M /\ funds = history[tip].funds
  BY DEF HistoryInv, At
<1>3. Len(history) \in 1 .. Len(history) /\ tip <= Len(history)
  BY <1>1
<1>4. /\ MESSAGE_NUM \in Nat /\ DOMAIN M = 0 .. MESSAGE_NUM - 1
      /\ \A j \in 0 .. MESSAGE_NUM - 1 : M[j] = last.M[j]
      /\ last.MESSAGE_NUM \in Nat /\ DOMAIN last.M = 0 .. last.MESSAGE_NUM - 1
      /\ MESSAGE_NUM <= last.MESSAGE_NUM
  BY <1>1, <1>2, <1>3 DEF HistoryInv, last
<1>. QED BY <1>1, <1>2, <1>4 DEF Begins

\* A new block.
LEMMA MineHistory ==
    ASSUME HistoryInv, Mine
    PROVE  /\ HistoryInv'
           /\ Begins(last.M, last'.M)
           /\ MESSAGE_NUM <= MESSAGE_NUM'
<1>1. /\ tip = Len(history) /\ tip' = tip + 1 /\ [FreshNext]_freshVars
      /\ history' = Append(history, chainState')
  BY DEF Mine, Chain, FreshNext
<1>2. /\ Len(history) \in Nat \ {0} /\ At(last)
      /\ history \in Seq({history[i] : i \in DOMAIN history})
  BY <1>1 DEF HistoryInv, last
<1>3. IInv /\ FInv
  BY <1>2, LastIsNow DEF HistoryInv
<1>4. IInv' /\ FInv'
  BY <1>1, <1>3, FreshStep
<1>5. /\ Len(history') = Len(history) + 1
      /\ \A i \in 1 .. Len(history) : history'[i] = history[i]
      /\ history'[Len(history) + 1] = chainState'
      /\ DOMAIN history' = 1 .. Len(history) + 1
      /\ DOMAIN history = 1 .. Len(history)
  <2>. DEFINE S == {history[i] : i \in DOMAIN history} \cup {chainState'}
  <2>1. history \in Seq(S) /\ chainState' \in S
    BY <1>2
  <2>. HIDE DEF S
  <2>. QED BY <1>1, <2>1
<1>6. history' \in Seq({history'[i] : i \in DOMAIN history'})
  <2>. DEFINE S == {history[i] : i \in DOMAIN history} \cup {chainState'}
  <2>1. history \in Seq(S) /\ chainState' \in S
    BY <1>2
  <2>2. S \subseteq {history'[i] : i \in DOMAIN history'}
    BY <1>2, <1>5
  <2>. HIDE DEF S
  <2>3. history' \in Seq(S)
    BY <1>1, <2>1
  <2>4. \A i \in 1 .. Len(history') : history'[i] \in {history'[j] : j \in DOMAIN history'}
    BY <1>5
  <2>. QED BY <2>3, <2>4
<1>7. last' = chainState' /\ last' = history'[Len(history')]
  BY <1>5 DEF last
<1>8. /\ last'.MESSAGE_NUM = MESSAGE_NUM' /\ last'.M = M'
      /\ last.MESSAGE_NUM = MESSAGE_NUM /\ last.M = M
  BY <1>2, <1>7 DEF chainState, At
<1>9. Longest!IInv' /\ Longest!FInv'
  <2>1. At(last)' => (IInv /\ FInv <=> Longest!IInv /\ Longest!FInv)'
    BY LastIsNow, PTL
  <2>2. At(last)'
    BY <1>7 DEF At, chainState
  <2>. QED BY <1>4, <2>1, <2>2
<1>10. GoodLog(last'.M)
  <2>1. (IInv /\ FInv)' => GoodLog(M)'
    BY LogIsGood, PTL
  <2>. QED BY <1>4, <1>8, <2>1
<1>11. /\ MESSAGE_NUM <= MESSAGE_NUM' /\ MESSAGE_NUM \in Nat /\ MESSAGE_NUM' \in Nat
       /\ DOMAIN M = 0 .. MESSAGE_NUM - 1 /\ DOMAIN M' = 0 .. MESSAGE_NUM' - 1
       /\ \A j \in 0 .. MESSAGE_NUM - 1 : M'[j] = M[j]
  <2>1. /\ MESSAGE_NUM <= MESSAGE_NUM' /\ MESSAGE_NUM \in Nat /\ MESSAGE_NUM' \in Nat
        /\ \A j \in Prefix(MESSAGE_NUM) : M'[j] = M[j]
    BY <1>1, <1>3, ChainPrefix
  <2>2. DOMAIN M = 0 .. MESSAGE_NUM - 1
    BY <1>3 DEF IInv, LogIsLedger
  <2>3. DOMAIN M' = 0 .. MESSAGE_NUM' - 1
    BY <1>4 DEF IInv, LogIsLedger
  <2>4. Prefix(MESSAGE_NUM) = 0 .. MESSAGE_NUM - 1
    BY <2>1, <2>2 DEF Prefix
  <2>. QED BY <2>1, <2>2, <2>3, <2>4
<1>12. ASSUME NEW i \in 1 .. Len(history')
       PROVE  /\ history'[i].MESSAGE_NUM \in Nat
              /\ history'[i].MESSAGE_NUM <= MESSAGE_NUM'
              /\ DOMAIN history'[i].M = 0 .. history'[i].MESSAGE_NUM - 1
              /\ \A j \in 0 .. history'[i].MESSAGE_NUM - 1 : history'[i].M[j] = last'.M[j]
              /\ \A j \in 1 .. Len(history') :
                    i <= j => history'[i].MESSAGE_NUM <= history'[j].MESSAGE_NUM
  <2>1. ASSUME NEW j \in 1 .. Len(history)
        PROVE  /\ history'[j] = history[j]
               /\ history[j].MESSAGE_NUM \in Nat
               /\ history[j].MESSAGE_NUM <= MESSAGE_NUM
               /\ DOMAIN history[j].M = 0 .. history[j].MESSAGE_NUM - 1
               /\ \A l \in 0 .. history[j].MESSAGE_NUM - 1 : history[j].M[l] = M'[l]
    <3>1. Len(history) \in 1 .. Len(history) /\ j <= Len(history)
      BY <1>2
    <3>2. history[j].MESSAGE_NUM \in Nat /\ history[j].MESSAGE_NUM <= MESSAGE_NUM
      BY <1>8, <3>1 DEF HistoryInv, last
    <3>3. \A l \in 0 .. history[j].MESSAGE_NUM - 1 : history[j].M[l] = M[l]
      BY <1>8 DEF HistoryInv
    <3>4. DOMAIN history[j].M = 0 .. history[j].MESSAGE_NUM - 1
      BY DEF HistoryInv
    <3>5. \A l \in 0 .. history[j].MESSAGE_NUM - 1 : history[j].M[l] = M'[l]
      <4>1. \A l \in 0 .. history[j].MESSAGE_NUM - 1 : l \in 0 .. MESSAGE_NUM - 1
        BY <1>11, <3>2
      <4>2. \A l \in 0 .. MESSAGE_NUM - 1 : M'[l] = M[l]
        BY <1>11
      <4>. QED BY <3>3, <4>1, <4>2
    <3>. QED BY <1>5, <3>2, <3>4, <3>5
  <2>2. CASE i = Len(history) + 1
    <3>1. history'[i].MESSAGE_NUM = MESSAGE_NUM' /\ history'[i].M = M'
      BY <1>5, <1>7, <1>8, <2>2
    <3>2. \A j \in 1 .. Len(history') : i <= j => j = i
      BY <1>2, <1>5, <2>2
    <3>. QED BY <1>8, <1>11, <3>1, <3>2
  <2>3. CASE i \in 1 .. Len(history)
    <3>1. \A j \in 1 .. Len(history) :
             i <= j => history[i].MESSAGE_NUM <= history[j].MESSAGE_NUM
      BY <2>3 DEF HistoryInv
    <3>2. \A j \in 1 .. Len(history') :
             j \in 1 .. Len(history) \/ history'[j].MESSAGE_NUM = MESSAGE_NUM'
      BY <1>2, <1>5, <1>7, <1>8
    <3>3. history[i].MESSAGE_NUM <= MESSAGE_NUM' /\ history'[i] = history[i]
      <4>1. history[i].MESSAGE_NUM \in Nat /\ history[i].MESSAGE_NUM <= MESSAGE_NUM /\ history'[i] = history[i]
        BY <2>1, <2>3
      <4>. QED BY <1>11, <4>1
    <3>4. \A j \in 1 .. Len(history') :
             i <= j => history'[i].MESSAGE_NUM <= history'[j].MESSAGE_NUM
      BY <1>5, <3>1, <3>2, <3>3
    <3>5. \A l \in 0 .. history'[i].MESSAGE_NUM - 1 : history'[i].M[l] = last'.M[l]
      BY <1>8, <2>1, <2>3, <3>3
    <3>6. history'[i].MESSAGE_NUM \in Nat /\ DOMAIN history'[i].M = 0 .. history'[i].MESSAGE_NUM - 1
      BY <2>1, <2>3, <3>3
    <3>. QED BY <3>3, <3>4, <3>5, <3>6
  <2>. QED BY <1>2, <1>5, <2>2, <2>3
<1>13. Begins(last.M, last'.M)
  <2>1. 0 .. MESSAGE_NUM - 1 \subseteq 0 .. MESSAGE_NUM' - 1
    BY <1>11
  <2>2. DOMAIN last.M = 0 .. MESSAGE_NUM - 1 /\ DOMAIN last'.M = 0 .. MESSAGE_NUM' - 1
    BY <1>8, <1>11
  <2>3. \A j \in 0 .. MESSAGE_NUM - 1 : last'.M[j] = last.M[j]
    BY <1>8, <1>11
  <2>. QED BY <2>1, <2>2, <2>3 DEF Begins
<1>14. tip' \in 1 .. Len(history') /\ At(history[tip])'
  BY <1>1, <1>2, <1>5 DEF At, chainState
<1>. QED BY <1>6, <1>9, <1>10, <1>11, <1>12, <1>13, <1>14 DEF HistoryInv

LEMMA LastKept ==
    ASSUME Longest!IInv, Longest!FInv, history' = history, draws' = draws
    PROVE  Longest!IInv' /\ Longest!FInv'
<1>1. last' = last
  BY DEF last
<1>2. Longest!TypeOK'
  BY <1>1 DEF Longest!IInv, Longest!TypeOK
<1>3. Longest!LogIsLedger'
  <2>1. DOMAIN last'.M = 0 .. last'.MESSAGE_NUM - 1
    BY <1>1 DEF Longest!IInv, Longest!LogIsLedger
  <2>2. /\ last.U = UNION {Longest!Values(last.M[i].utxos) : i \in DOMAIN last.M}
        /\ last.N = UNION {Longest!Values(last.M[i].nullifiers) : i \in DOMAIN last.M}
    BY DEF Longest!IInv, Longest!LogIsLedger
  <2>3. /\ last'.U = UNION {Longest!Values(last'.M[i].utxos) : i \in DOMAIN last'.M}
        /\ last'.N = UNION {Longest!Values(last'.M[i].nullifiers) : i \in DOMAIN last'.M}
    BY <1>1, <2>2
  <2>. QED BY <2>1, <2>3 DEF Longest!LogIsLedger, Longest!Values
<1>4. Longest!NoDoubleSpend'
  BY <1>1 DEF Longest!IInv, Longest!NoDoubleSpend
<1>5. Longest!MessagesMatch'
  BY <1>1 DEF Longest!IInv, Longest!MessagesMatch, Longest!HashesOf
<1>6. Longest!SpentWasCreated'
  BY <1>1 DEF Longest!IInv, Longest!SpentWasCreated, Longest!NullifierOf
<1>7. Longest!SecretsAreDrawn' /\ Longest!SecretsDiffer'
  BY <1>1 DEF Longest!FInv, Longest!SecretsAreDrawn, Longest!SecretsDiffer
<1>. QED BY <1>2, <1>3, <1>4, <1>5, <1>6, <1>7 DEF Longest!IInv, Longest!FInv

\* The chain goes to a state it has been in.
LEMMA RestoreHistory ==
    ASSUME HistoryInv, NEW i \in 1 .. Len(history), Restore(i)
    PROVE  /\ HistoryInv'
           /\ last' = last
           /\ tip <= i => MESSAGE_NUM <= MESSAGE_NUM'
<1>1. /\ tip' = i /\ history' = history /\ draws' = draws
      /\ U' = history[i].U /\ N' = history[i].N /\ MESSAGE_NUM' = history[i].MESSAGE_NUM
      /\ M' = history[i].M /\ funds' = history[i].funds
  BY DEF Restore
<1>2. last' = last
  BY <1>1 DEF last
<1>3. Longest!IInv' /\ Longest!FInv'
  BY <1>1, LastKept DEF HistoryInv
<1>4. GoodLog(last'.M)
  BY <1>2 DEF HistoryInv
<1>5. tip' \in 1 .. Len(history') /\ At(history[tip])'
  BY <1>1 DEF At
<1>6. HistoryInv'
  BY <1>1, <1>2, <1>3, <1>4, <1>5 DEF HistoryInv
<1>7. tip <= i => MESSAGE_NUM <= MESSAGE_NUM'
  BY <1>1 DEF HistoryInv, At
<1>. QED BY <1>2, <1>6, <1>7

\* A step of a process.
LEMMA SameHistory ==
    ASSUME HistoryInv, UNCHANGED freshVars, UNCHANGED rollVars
    PROVE  HistoryInv' /\ last' = last
<1>1. /\ U' = U /\ N' = N /\ MESSAGE_NUM' = MESSAGE_NUM /\ M' = M /\ funds' = funds /\ draws' = draws
      /\ history' = history /\ tip' = tip
  BY DEF freshVars, rollVars
<1>2. last' = last
  BY <1>1 DEF last
<1>3. Longest!IInv' /\ Longest!FInv'
  BY <1>1, LastKept DEF HistoryInv
<1>4. GoodLog(last'.M)
  BY <1>2 DEF HistoryInv
<1>5. tip' \in 1 .. Len(history') /\ At(history[tip])'
  BY <1>1 DEF HistoryInv, At
<1>6. HistoryInv'
  BY <1>1, <1>2, <1>3, <1>4, <1>5 DEF HistoryInv
<1>. QED BY <1>2, <1>6

-----------------------------------------------------------------------------
\* What a process holds when the log becomes longer, and the chain not shorter.
LEMMA ProcLonger ==
    ASSUME NEW log, NEW longer, GoodLog(log), GoodLog(longer), Begins(log, longer),
           NEW number \in Nat, NEW later \in Nat, number <= later, NEW p \in Procs,
           ProcRoll(log, number, p)
    PROVE  ProcRoll(longer, later, p)
<1>1. Settled(log, Seed[p], db[p]) => Settled(longer, Seed[p], db[p])
  BY SettledLonger
<1>2. Catching(log, Seed[p], db[p], num[p], res[p]) => Catching(longer, Seed[p], db[p], num[p], res[p])
  BY CatchingLonger
<1>. QED BY <1>1, <1>2 DEF ProcRoll

LEMMA DbLonger ==
    ASSUME NEW log, NEW longer, GoodLog(log), GoodLog(longer), Begins(log, longer),
           NEW number \in Nat, NEW later \in Nat,
           number <= later \/ \A p \in Procs : pc[p] = "idle",
           DbInv(log, number), UNCHANGED clientVars
    PROVE  DbInv(longer, later)'
<1>1. /\ \A d \in dbfile : Clean(longer, d, d.MESSAGE_NUM, {})
      /\ \A d \in dbfile, p \in Procs : Settled(longer, Seed[p], d)
  BY CleanLonger, SettledLonger DEF DbInv
<1>2. \A p \in Procs : ProcRoll(longer, later, p)
  <2>1. CASE number <= later
    BY <2>1, ProcLonger DEF DbInv
  <2>2. CASE \A p \in Procs : pc[p] = "idle"
    BY <2>2 DEF ProcRoll
  <2>. QED BY <2>1, <2>2
<1>3. DbInv(longer, later)
  BY <1>1, <1>2 DEF DbInv
<1>. QED BY <1>3 DEF DbInv, ProcRoll, clientVars

LEMMA SameArrays ==
    ASSUME NEW log, NEW number, DbInv(log, number), NEW p \in Procs
    PROVE  /\ db' = db => \E d : db' = [db EXCEPT ![p] = d]
           /\ num' = num => \E n : num' = [num EXCEPT ![p] = n]
           /\ res' = res => \E r : res' = [res EXCEPT ![p] = r]
BY DEF DbInv

\* What a command leaves for the other processes and the file.
LEMMA OthersRoll ==
    ASSUME NEW log, NEW number \in Nat, DbInv(log, number), OneSeed, NEW p \in Procs,
           \E s \in {"idle", "messageNum", "accountData", "loop", "write"} : pc' = [pc EXCEPT ![p] = s],
           \E d : db' = [db EXCEPT ![p] = d],
           \E n : num' = [num EXCEPT ![p] = n],
           \E r : res' = [res EXCEPT ![p] = r],
           \A d \in dbfile' : d \in dbfile \/ Settled(log, Seed[p], d),
           ProcRoll(log, number, p)'
    PROVE  DbInv(log, number)'
<1>1. PICK s \in {"idle", "messageNum", "accountData", "loop", "write"} : pc' = [pc EXCEPT ![p] = s]
  OBVIOUS
<1>2. PICK d : db' = [db EXCEPT ![p] = d]
  OBVIOUS
<1>3. PICK n : num' = [num EXCEPT ![p] = n]
  OBVIOUS
<1>4. PICK r : res' = [res EXCEPT ![p] = r]
  OBVIOUS
<1>5. /\ pc' \in [Procs -> {"idle", "messageNum", "accountData", "loop", "write"}]
      /\ db' = [q \in Procs |-> db'[q]]
      /\ num' = [q \in Procs |-> num'[q]]
      /\ res' = [q \in Procs |-> res'[q]]
  BY <1>1, <1>2, <1>3, <1>4 DEF DbInv
<1>6. ASSUME NEW q \in Procs PROVE ProcRoll(log, number, q)'
  <2>1. CASE q = p
    BY <2>1
  <2>2. CASE q # p
    <3>1. pc'[q] = pc[q] /\ db'[q] = db[q] /\ num'[q] = num[q] /\ res'[q] = res[q]
      BY <1>1, <1>2, <1>3, <1>4, <2>2 DEF DbInv
    <3>. QED BY <3>1 DEF DbInv, ProcRoll
  <2>. QED BY <2>1, <2>2
<1>7. ASSUME NEW e \in dbfile', NEW q \in Procs PROVE Settled(log, Seed[q], e)
  BY DEF OneSeed, DbInv
<1>8. \A e \in dbfile' : Clean(log, e, e.MESSAGE_NUM, {})
  BY DEF DbInv, Settled
<1>. QED BY <1>5, <1>6, <1>7, <1>8 DEF DbInv

\* A round of the loop.
LEMMA ProcessRoll ==
    ASSUME NEW log, GoodLog(log), NEW number, Sorted, DbInv(log, number), NEW p \in Procs, Process(p)
    PROVE  ProcRoll(log, number, p)'
<1>1. PICK i \in Heads(DOMAIN res[p]) :
        /\ db' = [db EXCEPT ![p] = processMessage(p, db[p], res[p][i])]
        /\ res' = [res EXCEPT ![p] = [j \in DOMAIN res[p] \ {i} |-> res[p][j]]]
  BY DEF Process
<1>2. UNCHANGED <<dbfile, pc, num>> /\ pc[p] = "loop"
  BY DEF Process
<1>3. Catching(log, Seed[p], db[p], num[p], res[p])
  BY <1>2 DEF DbInv, ProcRoll
<1>4. Catching(log, Seed[p], processMessage(p, db[p], res[p][i]), num[p],
               [j \in DOMAIN res[p] \ {i} |-> res[p][j]])
  BY <1>1, <1>3, ProcessCatches
<1>5. ProcRoll(log, number, p)'
  BY <1>1, <1>2, <1>4 DEF DbInv, ProcRoll
<1>. QED BY <1>5

\* Every step of a process.
LEMMA CommandRoll ==
    ASSUME NEW log, GoodLog(log), NEW number \in Nat, number = MESSAGE_NUM,
           DOMAIN M = 0 .. number - 1, Begins(M, log),
           OneSeed, Sorted, DbInv(log, number), NEW p \in Procs, Command(p)
    PROVE  DbInv(log, number)'
<1>1. Seed[p] \in PrivKeys /\ ProcRoll(log, number, p)
  BY SeedAssumption DEF DbInv
<1>2. DOMAIN db = Procs /\ DOMAIN num = Procs /\ DOMAIN res = Procs /\ DOMAIN pc = Procs
  BY DEF DbInv
<1>3. CASE Load(p)
  <2>1. PICK d \in dbfile : db' = [db EXCEPT ![p] = d]
    BY <1>3 DEF Load, parsed
  <2>2. pc' = [pc EXCEPT ![p] = "messageNum"] /\ UNCHANGED <<dbfile, num, res>>
    BY <1>3 DEF Load
  <2>3. Settled(log, Seed[p], d)
    BY DEF DbInv
  <2>4. ProcRoll(log, number, p)'
    BY <1>2, <2>1, <2>2, <2>3 DEF ProcRoll
  <2>5. (\E n : num' = [num EXCEPT ![p] = n]) /\ (\E r : res' = [res EXCEPT ![p] = r])
    BY <2>2, SameArrays
  <2>. QED BY <2>1, <2>2, <2>4, <2>5, OthersRoll
<1>4. CASE MessageNum(p)
  <2>1. /\ UNCHANGED <<dbfile, db, res>>
        /\ num' = [num EXCEPT ![p] = number]
        /\ pc' = [pc EXCEPT ![p] = IF number = db[p].MESSAGE_NUM THEN "idle" ELSE "accountData"]
        /\ pc[p] = "messageNum"
    BY <1>4 DEF MessageNum
  <2>2. Settled(log, Seed[p], db[p])
    BY <1>1, <2>1 DEF ProcRoll
  <2>3. ProcRoll(log, number, p)'
    BY <1>2, <2>1, <2>2 DEF ProcRoll
  <2>4. (\E d : db' = [db EXCEPT ![p] = d]) /\ (\E r : res' = [res EXCEPT ![p] = r])
    BY <2>1, SameArrays
  <2>. QED BY <2>1, <2>3, <2>4, OthersRoll
<1>5. CASE AccountData(p)
  <2>. DEFINE asked == rxrange(db[p].MESSAGE_NUM, num[p] - 1) \cap (0 .. number - 1)
              todo  == [i \in asked |-> log[i]]
  <2>1. /\ UNCHANGED <<dbfile, db, num>>
        /\ res' = [res EXCEPT ![p] = todo]
        /\ pc' = [pc EXCEPT ![p] = "loop"]
        /\ pc[p] = "accountData"
    <3>1. \A i \in asked : M[i] = log[i]
      BY DEF Begins
    <3>2. [i \in asked |-> M[i]] = todo
      BY <3>1
    <3>. QED BY <1>5, <3>2 DEF AccountData
  <2>2. Catching(log, Seed[p], db[p], num[p], todo)
    <3>1. (0 .. number - 1) \subseteq DOMAIN log
      BY DEF Begins
    <3>. QED BY <1>1, <2>1, <3>1, AnswerCatches DEF ProcRoll
  <2>. HIDE DEF todo
  <2>3. ProcRoll(log, number, p)'
    BY <1>2, <2>1, <2>2 DEF ProcRoll
  <2>4. (\E d : db' = [db EXCEPT ![p] = d]) /\ (\E n : num' = [num EXCEPT ![p] = n])
    BY <2>1, SameArrays
  <2>. QED BY <2>1, <2>3, <2>4, OthersRoll
<1>6. CASE Process(p)
  <2>1. /\ \E d : db' = [db EXCEPT ![p] = d]
        /\ \E r : res' = [res EXCEPT ![p] = r]
        /\ UNCHANGED <<dbfile, pc, num>> /\ pc[p] = "loop"
    BY <1>6 DEF Process
  <2>2. ProcRoll(log, number, p)'
    BY <1>6, ProcessRoll
  <2>3. pc' = [pc EXCEPT ![p] = "loop"] /\ (\E n : num' = [num EXCEPT ![p] = n])
    BY <2>1, SameArrays DEF DbInv
  <2>. QED BY <2>1, <2>2, <2>3, OthersRoll
<1>7. CASE Truncate(p)
  <2>. DEFINE d == [db[p] EXCEPT !.MESSAGE_NUM = num[p]]
  <2>1. /\ UNCHANGED <<num, res>> /\ DOMAIN res[p] = {} /\ pc[p] = "loop"
        /\ db' = [db EXCEPT ![p] = d] /\ dbfile' = {} /\ pc' = [pc EXCEPT ![p] = "write"]
    BY <1>2, <1>7 DEF Truncate, SyncedTo
  <2>2. Settled(log, Seed[p], d)
    BY <1>1, <2>1, CaughtUp DEF ProcRoll
  <2>. HIDE DEF d
  <2>3. ProcRoll(log, number, p)'
    BY <1>2, <2>1, <2>2 DEF ProcRoll
  <2>4. (\E n : num' = [num EXCEPT ![p] = n]) /\ (\E r : res' = [res EXCEPT ![p] = r])
    BY <2>1, SameArrays
  <2>. QED BY <2>1, <2>3, <2>4, OthersRoll
<1>8. CASE Write(p)
  <2>1. /\ UNCHANGED <<db, num, res>> /\ pc[p] = "write"
        /\ \A d \in dbfile' : d \in dbfile \/ d = db[p]
        /\ pc' = [pc EXCEPT ![p] = "idle"]
    BY <1>8 DEF Write
  <2>2. Settled(log, Seed[p], db[p])
    BY <1>1, <2>1 DEF ProcRoll
  <2>3. ProcRoll(log, number, p)'
    BY <1>2, <2>1 DEF ProcRoll
  <2>4. /\ (\E d : db' = [db EXCEPT ![p] = d]) /\ (\E n : num' = [num EXCEPT ![p] = n])
        /\ (\E r : res' = [res EXCEPT ![p] = r])
    BY <2>1, SameArrays
  <2>5. \A d \in dbfile' : d \in dbfile \/ Settled(log, Seed[p], d)
    BY <2>1, <2>2
  <2>6. \E s \in {"idle", "messageNum", "accountData", "loop", "write"} : pc' = [pc EXCEPT ![p] = s]
    BY <2>1
  <2>. QED BY ONLY <2>3, <2>4, <2>5, <2>6, OthersRoll, number \in Nat, DbInv(log, number), OneSeed, p \in Procs
<1>9. CASE Crash(p)
  <2>1. /\ UNCHANGED dbfile
        /\ pc' = [pc EXCEPT ![p] = "idle"] /\ db' = [db EXCEPT ![p] = emptyDb]
        /\ num' = [num EXCEPT ![p] = 0] /\ res' = [res EXCEPT ![p] = noAnswer]
    BY <1>9 DEF Crash
  <2>2. ProcRoll(log, number, p)'
    BY <1>2, <2>1 DEF ProcRoll
  <2>. QED BY <2>1, <2>2, OthersRoll
<1>. QED BY <1>3, <1>4, <1>5, <1>6, <1>7, <1>8, <1>9 DEF Command

-----------------------------------------------------------------------------
LEMMA RollStart ==
    ASSUME RollInit
    PROVE  HistoryInv /\ DbInv(last.M, MESSAGE_NUM)
<1>1. /\ SyncInit /\ history = <<chainState>> /\ tip = 1
  BY DEF RollInit
<1>2. /\ Len(history) = 1 /\ last = chainState /\ At(last) /\ DOMAIN history = 1 .. 1 /\ history[1] = chainState
  BY <1>1 DEF last, At, chainState
<1>3. IInv /\ FInv /\ M = [i \in {} |-> <<>>] /\ MESSAGE_NUM = 0
  BY <1>1, InitInv DEF SyncInit, FreshInit, Init, FInv, SecretsAreDrawn, SecretsDiffer
<1>4. Longest!IInv /\ Longest!FInv
  BY <1>2, <1>3, LastIsNow
<1>5. last.M = M /\ last.MESSAGE_NUM = MESSAGE_NUM
  BY <1>2 DEF At
<1>6. GoodLog(last.M)
  BY <1>3, <1>5, LogIsGood
<1>7. history \in Seq({history[i] : i \in DOMAIN history})
  BY <1>1
<1>8. HistoryInv
  BY <1>1, <1>2, <1>3, <1>4, <1>5, <1>6, <1>7 DEF HistoryInv
<1>9. /\ emptyDb \in Dbs /\ emptyDb.utxos = {} /\ emptyDb.nullifiers = {}
      /\ emptyDb.assets = {} /\ emptyDb.MESSAGE_NUM = 0
  BY DEF emptyDb, Dbs
<1>10. Clean(last.M, emptyDb, emptyDb.MESSAGE_NUM, {}) /\ \A k : Settled(last.M, k, emptyDb)
  BY <1>3, <1>5, <1>9 DEF Settled, Fits, Clean, UtxosOf, Owned
<1>11. /\ dbfile = {emptyDb} /\ pc = [p \in Procs |-> "idle"]
       /\ db = [p \in Procs |-> db[p]] /\ num = [p \in Procs |-> num[p]]
       /\ res = [p \in Procs |-> res[p]]
  BY <1>1 DEF SyncInit
<1>12. DbInv(last.M, MESSAGE_NUM)
  BY <1>10, <1>11 DEF DbInv, ProcRoll
<1>. QED BY <1>8, <1>12

LEMMA TipNumber == HistoryInv => GoodLog(last.M) /\ MESSAGE_NUM \in Nat
BY TipState DEF HistoryInv

LEMMA RollStep ==
    ASSUME OneSeed, Sorted, HistoryInv, DbInv(last.M, MESSAGE_NUM), [RollNext]_<<syncVars, rollVars>>
    PROVE  HistoryInv' /\ DbInv(last.M, MESSAGE_NUM)'
<1>1. GoodLog(last.M) /\ MESSAGE_NUM \in Nat
  BY TipNumber
<1>2. HistoryInv' => GoodLog(last'.M) /\ MESSAGE_NUM' \in Nat
  <2>1. HistoryInv' => (GoodLog(last.M) /\ MESSAGE_NUM \in Nat)'
    BY TipNumber, PTL
  <2>. QED BY <2>1
<1>3. ASSUME HistoryInv', Begins(last.M, last'.M), UNCHANGED clientVars,
             MESSAGE_NUM <= MESSAGE_NUM' \/ \A p \in Procs : pc[p] = "idle"
      PROVE  DbInv(last.M, MESSAGE_NUM)'
  <2>1. SUFFICES ASSUME NEW longer, longer = last'.M, NEW later, later = MESSAGE_NUM',
                        NEW log, log = last.M, NEW number, number = MESSAGE_NUM
                 PROVE  DbInv(longer, later)'
    BY DEF DbInv, ProcRoll
  <2>. QED BY <1>1, <1>2, <1>3, <2>1, DbLonger
<1>4. CASE Mine
  <2>1. HistoryInv' /\ Begins(last.M, last'.M) /\ MESSAGE_NUM <= MESSAGE_NUM'
    BY <1>4, MineHistory
  <2>2. UNCHANGED clientVars
    BY <1>4 DEF Mine, Chain
  <2>. QED BY <1>3, <2>1, <2>2
<1>5. ASSUME NEW i \in 1 .. Len(history), Restore(i), tip <= i \/ \A p \in Procs : pc[p] = "idle"
      PROVE  HistoryInv' /\ DbInv(last.M, MESSAGE_NUM)'
  <2>1. HistoryInv' /\ last' = last /\ (tip <= i => MESSAGE_NUM <= MESSAGE_NUM')
    BY <1>5, RestoreHistory
  <2>2. Begins(last.M, last'.M)
    BY <2>1 DEF Begins
  <2>3. UNCHANGED clientVars
    BY <1>5 DEF Restore
  <2>. QED BY <1>3, <1>5, <2>1, <2>2, <2>3
<1>6. CASE RollBack
  <2>1. PICK i \in 1 .. tip - 1 : Restore(i)
    BY <1>6 DEF RollBack
  <2>2. i \in 1 .. Len(history)
    BY <2>1, TipState
  <2>. QED BY <1>5, <1>6, <2>1, <2>2 DEF RollBack
<1>7. CASE MineAgain
  <2>1. Restore(tip + 1) /\ tip + 1 \in 1 .. Len(history) /\ tip <= tip + 1
    BY <1>7, TipState DEF MineAgain
  <2>. QED BY <1>5, <2>1
<1>8. CASE (\E p \in Procs : Command(p)) /\ UNCHANGED rollVars
  <2>1. PICK p \in Procs : Command(p)
    BY <1>8
  <2>2. UNCHANGED freshVars
    BY <2>1 DEF Command, Load, MessageNum, AccountData, Process, Truncate, Write, Crash
  <2>3. HistoryInv' /\ last' = last /\ MESSAGE_NUM' = MESSAGE_NUM
    BY <1>8, <2>2, SameHistory DEF freshVars
  <2>4. DOMAIN M = 0 .. MESSAGE_NUM - 1 /\ Begins(M, last.M)
    BY TipState
  <2>5. SUFFICES ASSUME NEW log, log = last.M, NEW number, number = MESSAGE_NUM
                 PROVE  DbInv(log, number)'
    BY <2>3 DEF DbInv, ProcRoll
  <2>. QED BY <1>1, <2>1, <2>4, <2>5, CommandRoll
<1>9. CASE UNCHANGED <<syncVars, rollVars>>
  <2>1. UNCHANGED freshVars /\ UNCHANGED clientVars /\ UNCHANGED rollVars
    BY <1>9 DEF syncVars
  <2>2. HistoryInv' /\ last' = last /\ MESSAGE_NUM' = MESSAGE_NUM
    BY <2>1, SameHistory DEF freshVars
  <2>3. Begins(last.M, last'.M)
    BY <2>2 DEF Begins
  <2>. QED BY <1>1, <1>3, <2>1, <2>2, <2>3
<1>. QED BY <1>4, <1>6, <1>7, <1>8, <1>9 DEF RollNext

LEMMA RollInvariant ==
    ASSUME OneSeed, Sorted
    PROVE  RollSpec => [](HistoryInv /\ DbInv(last.M, MESSAGE_NUM))
<1>1. RollInit => HistoryInv /\ DbInv(last.M, MESSAGE_NUM)
  BY RollStart
<1>2. HistoryInv /\ DbInv(last.M, MESSAGE_NUM) /\ [RollNext]_<<syncVars, rollVars>>
        => HistoryInv' /\ DbInv(last.M, MESSAGE_NUM)'
  BY RollStep
<1>. QED BY <1>1, <1>2, PTL DEF RollSpec

\* However often the chain is rolled back between two commands, and wherever
\* to: no message that db.json counts spends one of its assets, although the
\* messages that spent them may have been forgotten and processed twice.
THEOREM DbHoldsNoSpentAsset ==
    ASSUME OneSeed, Sorted
    PROVE  RollSpec => []NoAssetIsSpentYet
<1>1. HistoryInv /\ DbInv(last.M, MESSAGE_NUM) => NoAssetIsSpentYet
  <2>. SUFFICES ASSUME HistoryInv, DbInv(last.M, MESSAGE_NUM), NEW d \in parsed(dbfile), NEW a \in d.assets,
                       nullifierOf(a) \in PrefixNullifiers(d.MESSAGE_NUM)
                PROVE  FALSE
    BY DEF NoAssetIsSpentYet
  <2>1. PICK i \in DOMAIN M : i < d.MESSAGE_NUM /\ nullifierOf(a) \in Values(M[i].nullifiers)
    BY DEF PrefixNullifiers, Prefix
  <2>2. i \in DOMAIN last.M /\ last.M[i] = M[i]
    BY TipState DEF Begins
  <2>3. Clean(last.M, d, d.MESSAGE_NUM, {})
    BY DEF DbInv, parsed
  <2>. QED BY <2>1, <2>2, <2>3 DEF Clean
<1>. QED BY <1>1, RollInvariant, PTL

\* And a db that counts every message it has ever seen, as it does when the
\* same messages are mined again, holds exactly the unspent notes.
THEOREM MinedAgainHealed ==
    ASSUME OneSeed, Sorted
    PROVE  RollSpec => []MiningAgainHeals
<1>1. HistoryInv /\ DbInv(last.M, MESSAGE_NUM) => MiningAgainHeals
  <2>. SUFFICES ASSUME HistoryInv, DbInv(last.M, MESSAGE_NUM), NEW d \in parsed(dbfile), NEW p \in Procs,
                       d.MESSAGE_NUM <= MESSAGE_NUM, d.utxos = PrefixUtxos(d.MESSAGE_NUM),
                       d.nullifiers = PrefixNullifiers(d.MESSAGE_NUM)
                PROVE  d.assets = PrefixAssets(Seed[p], d.MESSAGE_NUM)
    BY DEF MiningAgainHeals
  <2>. DEFINE n == d.MESSAGE_NUM
              k == Seed[p]
  <2>1. Fits(last.M, k, d) /\ Clean(last.M, d, n, {}) /\ GoodLog(last.M)
    BY DEF DbInv, parsed, Settled, HistoryInv
  <2>2. \A i \in Prefix(n) : i \in DOMAIN last.M /\ last.M[i] = M[i] /\ i < n
    BY TipState DEF Begins, Prefix
  <2>3. ASSUME NEW a \in d.assets PROVE a \in PrefixAssets(k, n)
    <3>1. a \in Notes /\ a.pubkey = PubKey(k) /\ UTXOHasher(a) \in d.utxos
      BY <2>1, OwnedNote DEF Fits, Owned
    <3>2. PICK i \in Prefix(n) : UTXOHasher(a) \in Values(M[i].utxos)
      BY <3>1 DEF PrefixUtxos
    <3>3. a \in decrypted(k, M[i])
      BY <2>1, <2>2, <3>1, <3>2, HashedNote
    <3>4. nullifierOf(a) \notin PrefixNullifiers(n)
      BY <2>1, <2>2 DEF Clean, PrefixNullifiers
    <3>. QED BY <3>2, <3>3, <3>4 DEF PrefixAssets
  <2>4. ASSUME NEW a \in PrefixAssets(k, n) PROVE a \in d.assets
    <3>1. PICK i \in Prefix(n) : a \in decrypted(k, M[i])
      BY <2>4 DEF PrefixAssets
    <3>2. Owned(last.M, k, a) /\ UTXOHasher(a) \in Values(M[i].utxos)
      BY <2>1, <2>2, <3>1, OwnedNote DEF Owned
    <3>3. UTXOHasher(a) \in d.utxos /\ nullifierOf(a) \notin d.nullifiers
      BY <2>4, <3>2 DEF PrefixUtxos, PrefixAssets
    <3>. QED BY <2>1, <3>2, <3>3 DEF Fits
  <2>. QED BY <2>3, <2>4
<1>. QED BY <1>1, RollInvariant, PTL
=============================================================================
