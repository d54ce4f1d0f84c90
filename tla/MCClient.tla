------------------------------ MODULE MCClient ------------------------------
(***************************************************************************)
(* Small instances of Client: one process of the seed k1; k2 is everybody  *)
(* else.                                                                   *)
(***************************************************************************)
EXTENDS Client, TLC

CONSTANTS k1, k2, MaxDraws, Money, alice, dApp, waves, token, nobody, p1

MCPubKey(k)         == <<"pubkey", k>>
MCHash253(e)        == -e
MCUTXOHash(b, p, s) == <<b, p, s>>
MCCompress(k, s)    == <<k, s>>

MCEntropies == 1 .. MaxDraws
MCInitFunds == [a \in {alice, dApp} |-> IF a = alice THEN Money ELSE 0]
MCSeed      == [p \in Procs |-> k1]

\* What is typed: line(command, balance, private key of the pubkey).
line(c, b, k) == [command |-> c, balance |-> b, pubkey |-> PubKey(k)]

MCRequests ==
    {line("DETAILS", 0, k1), line("TRANSFER", 0, k1), line("TRANSFER", 2, k1), line("TRANSFER", 2, k2)}
        \cup {line("DEPOSIT", b, k1) : b \in {3, 6}}
        \cup {line("WITHDRAWAL", b, k1) : b \in {-1, 0, 2}}
=============================================================================
