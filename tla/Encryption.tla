------------------------------ MODULE Encryption ------------------------------
(***************************************************************************)
(* zcrypto/src/ecryption.js between two wallets: cli.js encrypts a note    *)
(* for the x of a public key and puts it as bytes into a message of the    *)
(* dApp, and every wallet that runs syncData() tries to decrypt it.        *)
(***************************************************************************)
EXTENDS BabyJubJub, Conversions

CONSTANTS
    Mnemonics,          \* seeds of the wallets
    Amounts, Secrets,   \* what a note holds besides its public key
    blake2b(_)          \* bytes -> the digest as a number

ASSUME CurveAssumption ==
    /\ A \in Int /\ D \in Int
    /\ Q \in Nat /\ L \in 1 .. Q - 1 /\ L % 2 = 1 /\ Q > 2
    /\ G # <<0, 1>> /\ insubgroup(G)

\* What is used of the curve: addition makes it a commutative group, as it does
\* on every twisted Edwards curve with a square A and a non-square D.
ASSUME GroupAssumption ==
    LET sum == [p \in curve |-> [q \in curve |-> add(p, q)]]
    IN  /\ G \in curve /\ <<0, 1>> \in curve
        /\ sum \in [curve -> [curve -> curve]]
        /\ \A p \in curve : sum[<<0, 1>>][p] = p
        /\ \A p \in curve : add(p, <<affine(-p[1], Q), p[2]>>) = <<0, 1>>
        /\ \A p \in curve : \A q \in curve : sum[p][q] = sum[q][p]
        /\ \A p \in curve : \A q \in curve : \A r \in curve : sum[sum[p][q]][r] = sum[p][sum[q][r]]

\* tonelli finds one of the two roots.
ASSUME RootAssumption ==
    \A k \in 0 .. L - 1 :
        LET p == mul(G, k) IN rootAt(p[1]) \in {p[2], affine(-p[2], Q)}

\* A wallet has a key: the search of privkey came to an end.
ASSUME KeysAssumption == \A w \in Mnemonics : privkey(w) \in 0 .. L - 1

ASSUME NotesAssumption == Amounts \subseteq 0 .. Q - 1 /\ Secrets \subseteq 0 .. Q - 1
ASSUME FieldAssumption == Q <= Power[WordSize]

bytesOf(v) == FlattenSeq([i \in DOMAIN v |-> bigint2buffLe(v[i], WordSize)])

\* A digest is a number, of notes as of what masks them.
ASSUME DigestAssumption ==
    LET F == 0 .. Q - 1
    IN  \A v \in (Amounts \X F \X Secrets) \cup (F \X F \X (0 .. 2)) : blake2b(bytesOf(v)) \in Nat

\* No result of a call is an exception.
ASSUME ThrowsAssumption == throws \notin Int \cup curve \cup [checksum : BOOLEAN, message : Seq(Int)]

VARIABLES
    em,         \* the bytes of the encrypted note, <<>> before it is sent
    sent,       \* the wallet it is for, the note in it and its encryption
    read        \* what each wallet that has read it got

encVars == <<em, sent, read>>

b2hash(v) == affine(blake2b(bytesOf(v)), Q)

ecdh(pubk, pk) == mul(pubk, pk)[1]

mask(h, iv, i) == b2hash(<<h, iv, i - 1>>)

\* "pk" is the random number rand256() % L of the sender.
encrypt(message, pubk, pk) ==
    LET h  == ecdh(pubk, pk)
        iv == b2hash(message)
    IN  <<mul(G, pk)[1], iv>> \o
            [i \in DOMAIN message |-> affine(message[i] + mask(h, iv, i), Q)]

decrypt(encmessage, pk) ==
    LET pubk == decompress(encmessage[1])
        iv   == encmessage[2]
        h    == ecdh(pubk, pk)
        message == [i \in 1 .. Len(encmessage) - 2 |->
                       affine(encmessage[i + 2] - mask(h, iv, i), Q)]
    IN  IF pubk = throws THEN throws
        ELSE [checksum |-> iv = b2hash(message), message |-> message]

EncInit ==
    /\ em = <<>>
    /\ sent = <<>>
    /\ read = [w \in {} |-> throws]

\* encrypt_utxo(): the note is encrypted for the point behind its pubkey.
encrypt_utxo ==
    /\ em = <<>>
    /\ \E to \in Mnemonics, balance \in Amounts, secret \in Secrets, pk \in 0 .. L - 1 :
          LET x     == pubkey(to)[1]
              utxo  == <<balance, x, secret>>
              words == encrypt(utxo, decompress(x), pk)
          IN  /\ decompress(x) # throws
              /\ em' = serializeMessage(words)
              /\ sent' = [to |-> to, utxo |-> utxo, words |-> words]
    /\ UNCHANGED read

\* A wallet gets to the message in the loop of syncData().
Read(wallet) ==
    /\ em # <<>>
    /\ wallet \notin DOMAIN read
    /\ read' = [w \in DOMAIN read \cup {wallet} |->
                   IF w = wallet THEN decrypt(deserializeMessage(em), privkey(wallet))
                   ELSE read[w]]
    /\ UNCHANGED <<em, sent>>

EncNext == encrypt_utxo \/ \E wallet \in Mnemonics : Read(wallet)

EncSpec == EncInit /\ [][EncNext]_encVars

-----------------------------------------------------------------------------
\* Whatever the random number, the wallet a note is for decrypts exactly that
\* note and accepts it: checksum && m[1] === pubkey.  The sender knows x of the
\* receiver's public key only and the receiver x of the sender's only: both
\* decompress to the one point of the subgroup, or the secrets differ.
OwnerReads ==
    \A w \in DOMAIN read : w = sent.to =>
        read[w] = [checksum |-> TRUE, message |-> sent.utxo]

\* In both byte orders a buffer of n bytes gives back the words of a message
\* modulo 256^n, although the Number in between is negative for half of the
\* limbs: a wallet gets the words that were sent, and no two messages hash
\* alike for want of bytes.
BytesRoundTrip ==
    em # <<>> =>
        \A word \in {sent.words[i] : i \in DOMAIN sent.words}, n \in 1 .. WordSize :
            /\ buff2bigintLe(bigint2buffLe(word, n)) = word % Power[n]
            /\ buff2bigintBe(bigint2buffBe(word, n)) = word % Power[n]

\* No honest message makes a wallet throw out of the loop of syncData(), which
\* would never get past it.
NoReaderThrows == \A w \in DOMAIN read : read[w] # throws
=============================================================================
