-------------------------------- MODULE MCWire --------------------------------
EXTENDS Wire

\* Bytes are bits: a word is a number below 2^31, a balance one below 2^8, of
\* which half are negative for toInt, and an address one of 26 bits.
MCHashes     == {5, 2^30 + 3, 2147483647}
MCAnonymity  == {[k \in 1 .. 8 |-> 2^29 + 7 * k], [k \in 1 .. 8 |-> IF k < 5 THEN 5 ELSE 2^30 + k]}
MCBalances   == {0, 1, 90, 127, 128, 255}
MCReceivers  == {2^25 + 1, 2^26 - 1}
MCEncrypted  == {<<1, 2, 3, 4, 2^30 + 5>>, <<2^30, 0, 2147483647, 8, 9>>}
=============================================================================
