----------------------------- MODULE MCSyncData -----------------------------
(***************************************************************************)
(* Small instances of SyncData: two processes, three WAVES to spend.       *)
(***************************************************************************)
EXTENDS SyncData, TLC

CONSTANTS k1, k2, MaxDraws, alice, dApp, waves, token, nobody, p1, p2

MCPubKey(k)         == <<"pubkey", k>>
MCHash253(e)        == -e
MCUTXOHash(b, p, s) == <<b, p, s>>
MCCompress(k, s)    == <<k, s>>

MCEntropies == 1 .. MaxDraws
MCInitFunds == [a \in {alice, dApp} |-> IF a = alice THEN 4 ELSE 0]

\* Both processes of one seed, or of two.
MCOneSeed  == [p \in {p1, p2} |-> k1]
MCTwoSeeds == [p \in {p1, p2} |-> IF p = p1 THEN k1 ELSE k2]

MCSymmetry == Permutations({p1, p2})
=============================================================================
