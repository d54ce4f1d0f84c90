----------------------------- MODULE FreshPool ------------------------------
(***************************************************************************)
(* The contract called by clients that run createUtxo and cli.js: every    *)
(* secret and every dummy nullifier comes from a random number drawn for   *)
(* it alone.  A random number is named by the position of its draw, so     *)
(* "draws" counts them.  A call that fails anywhere between the draw and   *)
(* its block wastes the draw.                                              *)
(***************************************************************************)
EXTENDS ZWaves

ASSUME EntropiesAreDraws == Entropies \subseteq Nat \ {0}

VARIABLE draws

freshVars == <<U, N, MESSAGE_NUM, M, funds, draws>>

\* The secret made of the i-th draw from now.
DrawnOnce(i) == {Hash253(e) : e \in Entropies \cap {draws + 1}}    \* mutant: one draw for both outputs
Drawn(i) == {Hash253(e) : e \in Entropies \cap {draws + i}}

FreshInit == Init /\ draws = 0

\* deposit() of cli.js: utxoCompute draws the entropy of the note.
FreshDeposit ==
    /\ draws + 1 \in Entropies
    /\ draws' = draws + 1
    /\ \E caller \in Accounts, payments \in Payments, pubkey \in PubKeys :
          deposit(caller, payments, pubkey, draws + 1, fee)

\* transfer() of cli.js: utxoCompute for both outputs, then the entropy of the
\* dummy nullifier.
FreshTransfer ==
    /\ draws + 3 \in Entropies
    /\ draws' = draws + 3
    /\ \E caller \in Accounts, ring \in Rings(Known), index \in Slots \X Slots, privkey \in PrivKeys :
          LET in0 == Selector(ring, index[1])
              in1 == Selector(ring, index[2])
          IN  transfer(caller, ring, in0, in1, privkey, draws + 3,
                       {out \in Outputs[InBalance(in0, in1)] :
                           out[1].secret \in Drawn(1) /\ out[2].secret \in Drawn(2)}, fee)

FreshWithdrawal == Withdrawal(fee) /\ UNCHANGED draws

\* A draw whose transaction is rejected or lost.
WasteDraw ==
    /\ draws + 1 \in Entropies
    /\ draws' = draws + 1
    /\ UNCHANGED vars

FreshNext == FreshDeposit \/ FreshTransfer \/ FreshWithdrawal \/ WasteDraw

FreshSpec == FreshInit /\ [][FreshNext]_freshVars

-----------------------------------------------------------------------------
\* The dApp holds exactly what it owes and what it started with: it never
\* pays a fee that no note paid for, and no note is locked for ever.
ExactBacking == funds[this] = InitFunds[this] + OutstandingValue

\* A nullifier hits at most one of all the notes ever announced, and that one
\* was announced before it: no dummy and no other note's spending ever locks a
\* note, not even one that is still to come.
Hits(i, p, j, q) == M[i].nullifiers[p] \in NullifierOf(M[j].notes[q])

OneNotePerNullifier ==
    \A i \in DOMAIN M : \A p \in DOMAIN M[i].nullifiers :
      \A j \in DOMAIN M : \A q \in DOMAIN M[j].notes : Hits(i, p, j, q) =>
        /\ j < i
        /\ \A l \in DOMAIN M : \A r \in DOMAIN M[l].notes :
              Hits(i, p, l, r) => l = j /\ r = q

\* The contract implements the pool.
Pool == INSTANCE NotePool WITH
            NoteSet <- Notes, TxFee <- Fee, Reserve <- InitFunds[this],
            unspent <- Unspent, pot <- funds[this]
ImplementsPool == Pool!PoolSpec
=============================================================================
