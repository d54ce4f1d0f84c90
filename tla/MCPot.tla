-------------------------------- MODULE MCPot ---------------------------------
(***************************************************************************)
(* A small instance of Pot, and so of ZWaves.  The hash functions are the   *)
(* free ones: a hash is the tuple of what was hashed, so that none of them  *)
(* collides.                                                                *)
(***************************************************************************)
EXTENDS Pot, TLC

CONSTANTS k1, k2, e1, e2, e3, alice, dApp, waves, token, nobody

MCPubKey(k)         == <<"pubkey", k>>
MCHash253(e)        == <<"secret", e>>
MCUTXOHash(b, p, s) == <<b, p, s>>
MCCompress(k, s)    == <<k, s>>

MCInitFunds == [a \in {alice, dApp} |-> IF a = alice THEN 4 ELSE 0]
MCDrafts    == [balance : {1}, pubkey : PubKeys, secret : Secrets]
MCSymmetry  == Permutations(Entropies) \cup Permutations(PrivKeys)
=============================================================================
