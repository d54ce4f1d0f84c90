------------------------------ MODULE NotePool ------------------------------
(***************************************************************************)
(* What the anonymous pool promises, without hashes, nullifiers, proofs,   *)
(* rings or messages: a set of notes, each with one owner, and a pot of    *)
(* WAVES that pays them out and pays the fee of every spending step.       *)
(***************************************************************************)
EXTENDS Integers

CONSTANTS
    NoteSet,        \* records with a balance and an owner's pubkey
    TxFee,          \* fee of a spending step
    Reserve         \* what the pot holds before the first note

VARIABLES unspent, pot

pool == <<unspent, pot>>

PoolInit ==
    /\ unspent = {}
    /\ pot = Reserve

\* A deposit adds a note and its balance.
Mint ==
    \E note \in unspent' \ unspent :
        /\ unspent' = unspent \cup {note}
        /\ pot' = pot + note.balance

\* A transfer replaces one or two notes of one owner by two others, whose
\* balances and the fee add up to those of the replaced ones.
Convert ==
    \E in0, in1 \in unspent, out0, out1 \in unspent' \ unspent :
        /\ in0.pubkey = in1.pubkey
        /\ out0 # out1
        /\ in0.balance + (IF in0 = in1 THEN 0 ELSE in1.balance)
             = out0.balance + out1.balance + TxFee
        /\ unspent' = (unspent \ {in0, in1}) \cup {out0, out1}
        /\ pot' = pot - TxFee

\* A withdrawal removes a note and pays its balance, the fee out of it.
Redeem ==
    \E note \in unspent :
        /\ note.balance >= TxFee
        /\ unspent' = unspent \ {note}
        /\ pot' = pot - note.balance

PoolNext == unspent' \subseteq NoteSet /\ (Mint \/ Convert \/ Redeem)

PoolSpec == PoolInit /\ [][PoolNext]_pool
=============================================================================
