SPECIFICATION EncSpec
CONSTANTS
    A = 8
    D = 7
    Q = 97
    L = 13
    G <- MCG
    PubkeyLimit = 64
    sha256 <- MCsha256
    blake2b <- MCblake2b
    Byte = 2
    WordSize = 7
    throws = throws
    Mnemonics = {1, 2, 3}
    Amounts = {0, 7, 50, 96}
    TxFees = {1}
    Secrets = {1, 96}
INVARIANTS
    OwnerReads
    BytesRoundTrip
    NoReaderThrows
CHECK_DEADLOCK FALSE
