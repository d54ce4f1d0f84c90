--------------------------- MODULE MCSyncRollBack ----------------------------
(***************************************************************************)
(* Small instances of SyncRollBack.                                        *)
(***************************************************************************)
EXTENDS SyncRollBack, TLC

CONSTANTS k1, k2, MaxDraws, alice, dApp, waves, token, nobody, p1, p2

MCPubKey(k)         == <<"pubkey", k>>
MCHash253(e)        == -e
MCUTXOHash(b, p, s) == <<b, p, s>>
MCCompress(k, s)    == <<k, s>>

MCEntropies == 1 .. MaxDraws
MCInitFunds == [a \in {alice, dApp} |-> IF a = alice THEN 4 ELSE 0]
MCOneSeed   == [p \in Procs |-> k1]
=============================================================================
