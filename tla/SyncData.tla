------------------------------ MODULE SyncData ------------------------------
(***************************************************************************)
(* syncData() of cli.js: how a command line process turns the message log  *)
(* of the dApp into db.json.  Several processes, each started with a seed, *)
(* run in the same directory and share the file; each of them can be       *)
(* killed at any await and inside the write.  The chain grows meanwhile.   *)
(***************************************************************************)
EXTENDS LogPrefix, FreshPool

CONSTANTS
    Procs,          \* command line processes
    Seed,           \* process -> private key of its seed
    Sorted          \* whether the node answers in message order

ASSUME SeedAssumption == Seed \in [Procs -> PrivKeys]

ASSUME SortedAssumption == Sorted \in BOOLEAN

VARIABLES
    dbfile,         \* the dbs whose text is in db.json: one, none after the file
                    \* is truncated, more than one where writers overlap
    pc,             \* what each process does next
    db,             \* its variable db
    num,            \* its variable message_num
    res             \* its variable res: the entries still to process

clientVars == <<dbfile, pc, db, num, res>>
syncVars   == <<freshVars, clientVars>>

emptyDb  == [utxos |-> {}, nullifiers |-> {}, assets |-> {}, MESSAGE_NUM |-> 0]
noAnswer == [i \in {} |-> <<>>]

-----------------------------------------------------------------------------
\* mutant: push_nullifier leaves the asset
keepAssets(p, d, message) ==
    [d EXCEPT !.utxos      = @ \cup Values(message.utxos),
              !.nullifiers = @ \cup Values(message.nullifiers),
              !.assets     = @ \cup decrypted(Seed[p], message)]

\* The body of the loop over the messages of the answer.  All nullifiers of a
\* message are pushed before its assets.
processMessage(p, d, message) ==
    LET nulls == Values(message.nullifiers)
        kept  == {a \in d.assets : nullifierOf(a) \notin nulls}
        new   == {n \in decrypted(Seed[p], message) :
                     \A a \in kept : nullifierOf(a) # nullifierOf(n)}
    IN  [d EXCEPT !.utxos      = @ \cup Values(message.utxos),
                  !.nullifiers = @ \cup nulls,
                  !.assets     = kept \cup new]

\* Whatever the order of its arguments.
rxrange(a, b) == IF a <= b THEN a .. b ELSE b .. a

-----------------------------------------------------------------------------
SyncInit ==
    /\ FreshInit
    /\ dbfile = {emptyDb}
    /\ pc = [p \in Procs |-> "idle"]
    /\ db = [p \in Procs |-> emptyDb]
    /\ num = [p \in Procs |-> 0]
    /\ res = [p \in Procs |-> noAnswer]

\* fload("db.json"), which throws unless the file holds the text of one db;
\* then the request for MESSAGE_NUM.
parsed(text) == {d \in text : text = {d}}

Load(p) ==
    /\ pc[p] = "idle"
    /\ \E d \in parsed(dbfile) : db' = [db EXCEPT ![p] = d]
    /\ pc' = [pc EXCEPT ![p] = "messageNum"]
    /\ UNCHANGED <<freshVars, dbfile, num, res>>

\* The answer of messageNum(): return when nothing is new, else ask for the
\* messages up to it.
MessageNum(p) ==
    /\ pc[p] = "messageNum"
    /\ num' = [num EXCEPT ![p] = MESSAGE_NUM]
    /\ pc' = [pc EXCEPT ![p] =
                 IF MESSAGE_NUM = db[p].MESSAGE_NUM THEN "idle" ELSE "accountData"]
    /\ UNCHANGED <<freshVars, dbfile, db, res>>

\* The answer of accountDataEx(): the entries asked for that exist by now.
AccountData(p) ==
    /\ pc[p] = "accountData"
    /\ LET wanted == rxrange(db[p].MESSAGE_NUM, num[p] - 1) \cap DOMAIN M
       IN  res' = [res EXCEPT ![p] = [i \in wanted |-> M[i]]]
    /\ pc' = [pc EXCEPT ![p] = "loop"]
    /\ UNCHANGED <<freshVars, dbfile, db, num>>

\* The messages that may be the next ones of an answer.
Heads(S) == {i \in S : Sorted => \A j \in S : i <= j}

\* One round of the loop, in the order of the answer.
Process(p) ==
    /\ pc[p] = "loop"
    /\ \E i \in Heads(DOMAIN res[p]) :
          /\ db' = [db EXCEPT ![p] = processMessage(p, db[p], res[p][i])]
          /\ res' = [res EXCEPT ![p] = [j \in DOMAIN res[p] \ {i} |-> res[p][j]]]
    /\ UNCHANGED <<freshVars, dbfile, pc, num>>

\* How far the messages of the answer go.
LatestNum(p) == MESSAGE_NUM     \* mutant: reads the number again after the answer
\* mutant: the number in the file never goes down
HighestNum(p) == IF num[p] < db[p].MESSAGE_NUM THEN db[p].MESSAGE_NUM ELSE num[p]
SyncedTo(p) == num[p]

\* The end of the loop, and the first half of fsave(): the file is truncated.
Truncate(p) ==
    /\ pc[p] = "loop"
    /\ DOMAIN res[p] = {}
    /\ db' = [db EXCEPT ![p].MESSAGE_NUM = SyncedTo(p)]
    /\ dbfile' = {}
    /\ pc' = [pc EXCEPT ![p] = "write"]
    /\ UNCHANGED <<freshVars, num, res>>

\* The second half of fsave(): the text is written over what another process
\* may have written since, and leaves its end standing when that was longer.
Write(p) ==
    /\ pc[p] = "write"
    /\ dbfile' \in {{db[p]}, dbfile \cup {db[p]}}
    /\ pc' = [pc EXCEPT ![p] = "idle"]
    /\ UNCHANGED <<freshVars, db, num, res>>

\* The process is killed, or a request throws; the next one starts from the file.
Crash(p) ==
    /\ pc[p] # "idle"
    /\ pc' = [pc EXCEPT ![p] = "idle"]
    /\ db' = [db EXCEPT ![p] = emptyDb]
    /\ num' = [num EXCEPT ![p] = 0]
    /\ res' = [res EXCEPT ![p] = noAnswer]
    /\ UNCHANGED <<freshVars, dbfile>>

Chain == (FreshDeposit \/ FreshTransfer \/ FreshWithdrawal) /\ UNCHANGED clientVars

Command(p) ==
    \/ Load(p)
    \/ MessageNum(p)
    \/ AccountData(p)
    \/ Process(p)
    \/ Truncate(p)
    \/ Write(p)
    \/ Crash(p)

SyncNext == Chain \/ \E p \in Procs : Command(p)

SyncSpec == SyncInit /\ [][SyncNext]_syncVars

-----------------------------------------------------------------------------
\* A db knows every utxo and nullifier of the messages it counts, nothing
\* else, and misses no unspent note of the private key.
KnowsPrefix(privkey, d) ==
    LET n == d.MESSAGE_NUM
    IN  /\ n <= MESSAGE_NUM
        /\ d.utxos = PrefixUtxos(n)
        /\ d.nullifiers = PrefixNullifiers(n)
        /\ PrefixAssets(privkey, n) \subseteq d.assets

\* Whatever the interleaving of the processes, their crashes, the order of the
\* answers and the moment the file is torn: what can be loaded from db.json is
\* a whole db that misses nothing of the messages it counts.
NothingMissed ==
    \A d \in parsed(dbfile), p \in Procs : KnowsPrefix(Seed[p], d)

\* When the answers come in message order the assets are exactly the unspent
\* notes: db.json is a function of the log prefix, whoever wrote it last.
AssetsAreUnspent ==
    \A d \in parsed(dbfile), p \in Procs :
        d.assets = PrefixAssets(Seed[p], d.MESSAGE_NUM)

\* The assertion "in_utxo is spent" of transfer() for the assets of a db that
\* syncData() has just returned, as collect() calls it.
InUtxoIsNotSpent ==
    \A p \in Procs : pc[p] = "idle" =>
        \A a \in db[p].assets : nullifierOf(a) \notin db[p].nullifiers

\* "Print details of current seed": the assets a process reads from its db
\* belong to the seed it was started with.
DetailsOfCurrentSeed ==
    \A p \in Procs : pc[p] = "idle" =>
        \A a \in db[p].assets : a.pubkey = PubKey(Seed[p])
=============================================================================
