----------------------------- MODULE MCEncryption -----------------------------
EXTENDS Encryption

\* A curve with 8 * 13 points over a field whose order is 1 modulo 2^5.
MCG == <<21, 5>>

\* Digests for which some wallets need a second try.
MCsha256(mnemonic, offset) == 29 * mnemonic + 5 * offset + 3

\* All bits of what is hashed go into the digest.
MCblake2b(bytes) == FoldLeft(LAMBDA acc, b : (3 * acc + 5 * b + 7) % 1009, 1, bytes)
=============================================================================
