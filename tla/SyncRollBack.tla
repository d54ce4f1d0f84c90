---------------------------- MODULE SyncRollBack -----------------------------
(***************************************************************************)
(* syncData() on a chain that forgets its last blocks.  What was rolled    *)
(* back comes back: the transactions return to the pool of the node and    *)
(* are mined again in their old order before any new one.  The message     *)
(* number a process reads can then be smaller than that of db.json, or the *)
(* same again.                                                             *)
(***************************************************************************)
EXTENDS SyncData

CONSTANT MaxRollBacks   \* bound on the number of roll backs

ASSUME RollBacksAssumption == MaxRollBacks \in Nat

VARIABLES
    history,        \* the states of the chain, from its first block on
    tip,            \* the state it is in
    rolledBack      \* roll backs so far

rollVars == <<history, tip, rolledBack>>

chainState == [U |-> U, N |-> N, MESSAGE_NUM |-> MESSAGE_NUM, M |-> M, funds |-> funds]

RollInit ==
    /\ SyncInit
    /\ history = <<chainState>>
    /\ tip = 1
    /\ rolledBack = 0

\* A new block at the end of the chain.
Mine ==
    /\ tip = Len(history)
    /\ Chain
    /\ history' = Append(history, chainState')
    /\ tip' = tip + 1
    /\ UNCHANGED rolledBack

\* The chain goes to another state of its history.
Restore(i) ==
    /\ tip' = i
    /\ U' = history[i].U
    /\ N' = history[i].N
    /\ MESSAGE_NUM' = history[i].MESSAGE_NUM
    /\ M' = history[i].M
    /\ funds' = history[i].funds
    /\ UNCHANGED <<history, draws, clientVars>>

\* Between two commands.
RollBack ==
    /\ rolledBack < MaxRollBacks
    /\ \A p \in Procs : pc[p] = "idle"
    /\ \E i \in 1 .. tip - 1 : Restore(i)
    /\ rolledBack' = rolledBack + 1

MineAgain ==
    /\ tip < Len(history)
    /\ Restore(tip + 1)
    /\ UNCHANGED rolledBack

RollNext ==
    \/ Mine
    \/ RollBack
    \/ MineAgain
    \/ (\E p \in Procs : Command(p)) /\ UNCHANGED rollVars

RollSpec == RollInit /\ [][RollNext]_<<syncVars, rollVars>>

-----------------------------------------------------------------------------
\* A roll back between two commands heals when the same messages are mined
\* again: once db.json counts all the messages it has ever seen, its assets
\* are the unspent notes, although some were deleted and some came back.
MiningAgainHeals ==
    \A d \in parsed(dbfile), p \in Procs :
        LET n == d.MESSAGE_NUM
        IN  n <= MESSAGE_NUM /\ d.utxos = PrefixUtxos(n) /\ d.nullifiers = PrefixNullifiers(n)
                => d.assets = PrefixAssets(Seed[p], n)

\* No message that db.json counts spends one of its assets, whatever the
\* chain showed before.
NoAssetIsSpentYet ==
    \A d \in parsed(dbfile) : \A a \in d.assets :
        nullifierOf(a) \notin PrefixNullifiers(d.MESSAGE_NUM)
=============================================================================
