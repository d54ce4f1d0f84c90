----------------------------- MODULE LogPrefix ------------------------------
(***************************************************************************)
(* What a wallet can learn from the first n messages of the dApp: the      *)
(* meaning of the fields of db.json.                                       *)
(***************************************************************************)
EXTENDS ZWaves

Prefix(n) == {i \in DOMAIN M : i < n}

PrefixUtxos(n)      == UNION {Values(M[i].utxos) : i \in Prefix(n)}
PrefixNullifiers(n) == UNION {Values(M[i].nullifiers) : i \in Prefix(n)}

\* decrypt() succeeds and m[1] === pubkey: the notes of a message that belong
\* to a private key.
decrypted(privkey, message) ==
    {n \in Values(message.notes) : n.pubkey = PubKey(privkey)}

\* The nullifier of an asset, by which db.assets is keyed: it was made by the
\* private key behind its pubkey, or m[1] === pubkey fails.
nullifierOf(note) ==
    Compress(CHOOSE k \in PrivKeys : PubKey(k) = note.pubkey, note.secret)

\* The notes of a private key that the prefix does not spend.
PrefixAssets(privkey, n) ==
    {a \in UNION {decrypted(privkey, M[i]) : i \in Prefix(n)} :
        nullifierOf(a) \notin PrefixNullifiers(n)}
=============================================================================
