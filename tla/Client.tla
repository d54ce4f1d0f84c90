------------------------------- MODULE Client -------------------------------
(***************************************************************************)
(* The commands of cli.js as processes: details, deposit, transfer and     *)
(* withdrawal, with collect(), abstractTransfer() and abstractWithdrawal() *)
(* between their awaits.  Several processes may run with one seed.  A      *)
(* transaction is mined some time after its broadcast, also when its       *)
(* process has given up waiting or was killed.                             *)
(*                                                                         *)
(* syncData() is what SyncData shows it to be when the answers come in     *)
(* order: it returns the assets of the messages below the number it read.  *)
(***************************************************************************)
EXTENDS LogPrefix

CONSTANTS
    Procs,          \* command line processes
    Seed,           \* process -> private key of its seed
    payer,          \* the Waves account the deposits come from
    Stranger,       \* the private key behind randompk()
    Requests,       \* command lines: command, balance and pubkey
    MaxOrphans,     \* bound: transactions that are pending and nobody waits for
    None            \* no transaction, no command

ASSUME ClientAssumption ==
    /\ Seed \in [Procs -> PrivKeys]
    /\ Stranger \in PrivKeys /\ \A p \in Procs : Seed[p] # Stranger
    /\ payer \in Accounts \ {this}
    /\ Requests \subseteq [command : {"DETAILS", "DEPOSIT", "TRANSFER", "WITHDRAWAL"},
                          balance : Int, pubkey : PubKeys]
    /\ Entropies \subseteq Nat /\ IsFiniteSet(Entropies)     \* rand256() % 2^253
    /\ ANONYMITY_SET > 1                                    \* 8
    /\ MaxOrphans \in Nat

\* What a process broadcasts: a call, the notes it spends and makes, and the
\* private signals of its proof.  No transaction is none of them.
Drafted == [balance : Nat, pubkey : PubKeys, secret : Secrets]

Transactions ==
    [call    : {"deposit", "transfer", "withdrawal"},
     in      : Seq(Notes),
     out     : Seq(Drafted),
     key     : PrivKeys \cup {None},
     entropy : Nat]

ASSUME NoneAssumption == None \notin Transactions

VARIABLES
    at,             \* where each process is
    job,            \* its command and the command's options
    known,          \* MESSAGE_NUM of its variable db
    todo,           \* collect(): the assets its for loop has not reached
    pending,        \* the transaction it waits for
    orphans         \* pending transactions nobody waits for

clientVars == <<at, job, known, todo, pending, orphans>>
allVars    == <<vars, clientVars>>

own(p)    == PubKey(Seed[p])
assets(p) == PrefixAssets(Seed[p], known[p])

\* DEPOSIT and TRANSFER assert their balance; WITHDRAWAL takes any.
Unasserted(request) == TRUE         \* mutant: no assertion
accepted(request) ==
    request.command \in {"DEPOSIT", "TRANSFER"} => request.balance >= fee

-----------------------------------------------------------------------------
\* Random numbers: the next ones that neither the log nor a pending
\* transaction shows.  What a lost transaction drew nobody has seen.
Pending == (Values(pending) \cup orphans) \ {None}

Seen(e) ==
    \/ \E i \in DOMAIN M : \E n \in Values(M[i].notes) : n.secret = Hash253(e)
    \/ \E k \in PrivKeys : Compress(k, e) \in N
    \/ \E tx \in Pending : e = tx.entropy \/ \E n \in Values(tx.out) : n.secret = Hash253(e)

Unseen   == {e \in Entropies : ~Seen(e)}
Drawn(i) == CHOOSE e \in Unseen : Cardinality({d \in Unseen : d < e}) = i - 1
CanDraw(n) == Cardinality(Unseen) >= n

\* createUtxo() for a pubkey and the i-th random number from now.
utxoCompute(balance, pubkey, i) ==
    [balance |-> balance, pubkey |-> pubkey, secret |-> Hash253(Drawn(i))]

\* Transactions: what the contract is called with.
depositTx(balance, pubkey) ==
    [call |-> "deposit", in |-> <<>>, out |-> <<utxoCompute(balance, pubkey, 1)>>,
     key |-> None, entropy |-> Drawn(1)]

\* in_utxo: a list of one or two assets; "out": balances and pubkeys.
transferTx(p, in, out) ==
    [call |-> "transfer", in |-> <<in[1], in[Len(in)]>>,
     out |-> [i \in 1 .. 2 |-> utxoCompute(out[i].balance, out[i].pubkey, i)],
     key |-> Seed[p], entropy |-> Drawn(3)]

withdrawalTx(p, in) ==
    [call |-> "withdrawal", in |-> <<in>>, out |-> <<>>, key |-> Seed[p], entropy |-> 0]

\* in_hashes.  The decoys are hashes of db.utxos, which exist (NothingMissed);
\* any of them may be that of an input again.
InRing(in) == [i \in Slots |-> IF i = 0 THEN in[1] ELSE in[Len(in)]]

\* A block with the transaction.
Mined(tx) ==
    \/ /\ tx.call = "deposit"
       /\ deposit(payer, <<[amount |-> tx.out[1].balance, assetId |-> WAVES]>>,
                  tx.out[1].pubkey, tx.entropy, fee)
    \/ /\ tx.call = "transfer"
       /\ transfer(this, InRing(tx.in), tx.in[1], tx.in[2], tx.key, tx.entropy, {tx.out}, fee)
    \/ /\ tx.call = "withdrawal"
       /\ withdrawal(this, InRing(tx.in), tx.in[1], tx.key, payer, fee)

-----------------------------------------------------------------------------
ClientInit ==
    /\ Init
    /\ at = [p \in Procs |-> "shell"]
    /\ job = [p \in Procs |-> None]
    /\ known = [p \in Procs |-> 0]
    /\ todo = [p \in Procs |-> {}]
    /\ pending = [p \in Procs |-> None]
    /\ orphans = {}

Goto(p, place) == at' = [at EXCEPT ![p] = place]

\* The process ends; with it its variables.
Exit(p) ==
    /\ Goto(p, "shell")
    /\ job' = [job EXCEPT ![p] = None]
    /\ known' = [known EXCEPT ![p] = 0]
    /\ todo' = [todo EXCEPT ![p] = {}]

\* await broadcast(); await waitForTx(); then it is at "place".
Broadcast(p, tx, place) ==
    /\ pending' = [pending EXCEPT ![p] = tx]
    /\ Goto(p, place)

\* What is left of a command when it comes to its last collect().
OnlyCollect(p) == [command |-> "DETAILS", balance |-> 0, pubkey |-> own(p)]

Running(p, place) == at[p] = place /\ pending[p] = None

\* The command line is parsed and its options are asserted.
Start(p) ==
    /\ at[p] = "shell"
    /\ \E c \in Requests :
          /\ accepted(c)
          /\ job' = [job EXCEPT ![p] = c]
          /\ Goto(p, IF c.command = "DEPOSIT" THEN "deposit" ELSE "collect")
    /\ UNCHANGED <<vars, known, todo, pending, orphans>>

DepositUtxo(p) ==
    /\ Running(p, "deposit")
    /\ CanDraw(1)
    /\ Broadcast(p, depositTx(job[p].balance, job[p].pubkey), "collect")
    /\ job' = [job EXCEPT ![p] = OnlyCollect(p)]
    /\ UNCHANGED <<vars, known, todo, orphans>>

\* collect(): await syncData(), and the test of its while loop.
OnlyWhenEmpty(S) == S = {}      \* mutant: while (assets.length > 0)
collected(S) == Cardinality(S) <= 1

Collect(p) ==
    /\ Running(p, "collect")
    /\ Cardinality(todo[p]) <= 1
    /\ LET now == PrefixAssets(Seed[p], MESSAGE_NUM)
       IN  IF ~collected(now)
           THEN /\ known' = [known EXCEPT ![p] = MESSAGE_NUM]
                /\ todo' = [todo EXCEPT ![p] = now]
                /\ UNCHANGED <<at, job>>
           ELSE IF job[p].command \in {"TRANSFER", "WITHDRAWAL"}
           THEN /\ known' = [known EXCEPT ![p] = MESSAGE_NUM]
                /\ todo' = [todo EXCEPT ![p] = {}]
                /\ Goto(p, "abstractTransfer")
                /\ UNCHANGED job
           ELSE Exit(p)
    /\ UNCHANGED <<vars, pending, orphans>>

\* collect(): a round of its for loop, for two assets in the order the db
\* lists them.  The assertion "out_utxo is negative" of transfer() ends the
\* command.
Round(p) ==
    /\ Running(p, "collect")
    /\ \E a, b \in todo[p] :
          /\ a # b
          /\ LET rest == a.balance + b.balance - fee
             IN  IF rest < 0
                 THEN Exit(p) /\ UNCHANGED pending
                 ELSE /\ CanDraw(3)
                      /\ Broadcast(p, transferTx(p, <<a, b>>,
                                          << [balance |-> 0, pubkey |-> PubKey(Stranger)],
                                             [balance |-> rest, pubkey |-> own(p)] >>), "collect")
                      /\ todo' = [todo EXCEPT ![p] = @ \ {a, b}]
                      /\ UNCHANGED <<job, known>>
    /\ UNCHANGED <<vars, orphans>>

\* abstractTransfer() after collect().  A withdrawal first splits off its
\* balance and the fee of its second transaction.  "Not enough balance", and
\* the assertion "out_utxo is negative" of transfer(), end the command.
AskedBalance(j) == j.balance        \* mutant: the second fee is forgotten
splitBalance(j) == IF j.command = "WITHDRAWAL" THEN j.balance + fee ELSE j.balance

AbstractTransfer(p) ==
    /\ Running(p, "abstractTransfer")
    /\ LET balance == splitBalance(job[p])
           pubkey  == IF job[p].command = "WITHDRAWAL" THEN own(p) ELSE job[p].pubkey
           enough  == {a \in assets(p) : a.balance >= balance + fee}
       IN  IF enough = {} \/ balance < 0
           THEN Exit(p) /\ UNCHANGED pending
           ELSE /\ CanDraw(3)
                /\ \E a \in enough :
                      Broadcast(p, transferTx(p, <<a>>,
                                     << [balance |-> balance, pubkey |-> pubkey],
                                        [balance |-> a.balance - balance - fee, pubkey |-> own(p)] >>),
                                "syncData")
                /\ UNCHANGED <<job, known, todo>>
    /\ UNCHANGED <<vars, orphans>>

\* The syncData() that abstractTransfer() returns.
OldDb(p)  == known[p]           \* mutant: it returns the db it was called with
synced(p) == MESSAGE_NUM

SyncAgain(p) ==
    /\ Running(p, "syncData")
    /\ IF job[p].command = "WITHDRAWAL"
       THEN /\ known' = [known EXCEPT ![p] = synced(p)]
            /\ Goto(p, "withdrawal")
            /\ UNCHANGED <<job, todo>>
       ELSE Exit(p)
    /\ UNCHANGED <<vars, pending, orphans>>

\* abstractWithdrawal(): an asset of the balance that was split off.
parts(p) == {a \in assets(p) : a.balance = splitBalance(job[p])}

WithdrawPart(p) ==
    /\ Running(p, "withdrawal")
    /\ IF parts(p) = {}
       THEN Exit(p) /\ UNCHANGED pending            \* throw("Unknown error")
       ELSE /\ \E a \in parts(p) : Broadcast(p, withdrawalTx(p, a), "lastCollect")
            /\ UNCHANGED <<job, known, todo>>
    /\ UNCHANGED <<vars, orphans>>

\* The withdrawal is mined; collect() is called once more.
Withdrawn(p) ==
    /\ Running(p, "lastCollect")
    /\ job' = [job EXCEPT ![p] = OnlyCollect(p)]
    /\ Goto(p, "collect")
    /\ UNCHANGED <<vars, known, todo, pending, orphans>>

Proceed(p) ==
    \/ DepositUtxo(p) \/ Collect(p) \/ Round(p)
    \/ AbstractTransfer(p) \/ SyncAgain(p) \/ WithdrawPart(p) \/ Withdrawn(p)

-----------------------------------------------------------------------------
\* The node forgets a pending transaction whose input is spent.
Minable(tx, nullified) == \A n \in Values(tx.in) : nullifierOf(n) \notin nullified

MineOwn(p) ==
    /\ pending[p] # None
    /\ Mined(pending[p])
    /\ pending' = [pending EXCEPT ![p] = None]
    /\ orphans' = {t \in orphans : Minable(t, N')}
    /\ UNCHANGED <<at, job, known, todo>>

MineOrphan ==
    /\ \E tx \in orphans :
          /\ Mined(tx)
          /\ orphans' = {t \in orphans \ {tx} : Minable(t, N')}
    /\ UNCHANGED <<at, job, known, todo, pending>>

\* A request throws, waitForTx gives up or the process is killed.  What it has
\* broadcast may be mined later.
Fail(p) ==
    /\ at[p] # "shell"
    /\ Exit(p)
    /\ pending' = [pending EXCEPT ![p] = None]
    /\ orphans' \in
          {orphans} \cup (IF pending[p] # None /\ Cardinality(orphans) < MaxOrphans
                          THEN {orphans \cup {t \in {pending[p]} : Minable(t, N)}} ELSE {})
    /\ UNCHANGED vars

ClientNext ==
    \/ MineOrphan
    \/ \E p \in Procs : Start(p) \/ Proceed(p) \/ MineOwn(p) \/ Fail(p)

ClientSpec == ClientInit /\ [][ClientNext]_allVars

\* A process that can go on does, and waitForTx returns or throws.
Answered(p) == pending[p] # None /\ (MineOwn(p) \/ Fail(p))

FairClient ==
    ClientSpec /\ \A p \in Procs : WF_allVars(Proceed(p)) /\ WF_allVars(Answered(p))

-----------------------------------------------------------------------------
\* The notes of a seed that do not pay the fee.
dust(p) == {n \in Unspent : n.pubkey = own(p) /\ n.balance < fee}

\* The log shows the split of a WITHDRAWAL of a negative balance, whose part
\* and whose rest are both worth less than the fee.
Halved(k) ==
    \E i \in DOMAIN M, r \in Requests :
        /\ r.command = "WITHDRAWAL" /\ r.balance < 0
        /\ Len(M[i].notes) = 2
        /\ M[i].notes[1].balance = r.balance + fee
        /\ \A q \in 1 .. 2 : M[i].notes[q].pubkey = PubKey(k) /\ M[i].notes[q].balance < fee

\* A seed owns at most one note that is worth less than the fee, whatever its
\* processes do at the same time, give up or leave behind: collect() can merge
\* everything else with it.  Only the split of a negative withdrawal leaves a
\* second one, and never a third.
FewDust ==
    \A p \in Procs : Cardinality(dust(p)) <= (IF Halved(Seed[p]) THEN 2 ELSE 1)

\* The assertion "out_utxo is negative" never stops a collect().
NoNegativeOutput ==
    \A p \in Procs : \A a, b \in todo[p] : a # b => a.balance + b.balance >= fee

\* Nothing but the split of a negative withdrawal leads to that assertion,
\* also when the assets of the round are stale.
CollectGoesOn ==
    \A p \in Procs : \A a, b \in todo[p] :
        a # b => a.balance + b.balance >= fee \/ Halved(Seed[p])

\* While it is the only one of its seed, a withdrawal never ends in "Unknown
\* error", after it has paid the fee of the split.
NoUnknownError ==
    \A p \in Procs : Running(p, "withdrawal") => parts(p) # {}

\* A withdrawal that is mined pays exactly the balance of the command line.
PaysWhatWasAsked ==
    [][\A p \in Procs :
          (MineOwn(p) /\ pending[p].call = "withdrawal") =>
              funds'[payer] = funds[payer] + job[p].balance]_allVars

\* Every command ends.
CommandsEnd == \A p \in Procs : at[p] # "shell" ~> at[p] = "shell"
=============================================================================
