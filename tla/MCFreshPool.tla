---------------------------- MODULE MCFreshPool -----------------------------
(***************************************************************************)
(* A small instance of FreshPool: two owners, draws 1 .. MaxDraws.         *)
(***************************************************************************)
EXTENDS FreshPool, TLC

CONSTANTS k1, k2, MaxDraws, alice, dApp, waves, token, nobody

MCPubKey(k)         == <<"pubkey", k>>
MCHash253(e)        == -e
MCUTXOHash(b, p, s) == <<b, p, s>>
MCCompress(k, s)    == <<k, s>>

MCEntropies == 1 .. MaxDraws
MCInitFunds == [a \in {alice, dApp} |-> IF a = alice THEN 4 ELSE 0]
MCSymmetry  == Permutations(PrivKeys)
=============================================================================
