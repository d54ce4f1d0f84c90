SPECIFICATION WireSpec
CONSTANTS
    Byte = 2
    WordSize = 32
    Hashes <- MCHashes
    Anonymity <- MCAnonymity
    Balances <- MCBalances
    Receivers <- MCReceivers
    Encrypted <- MCEncrypted
INVARIANTS
    ProofMatches
    FieldsAreSignals
    WalletLearns
CHECK_DEADLOCK FALSE
