SPECIFICATION FreshSpec
CONSTANTS
    k1 = k1
    k2 = k2
    MaxDraws = 7
    alice = alice
    dApp = dApp
    waves = waves
    token = token
    nobody = nobody
    PrivKeys = {k1, k2}
    Entropies <- MCEntropies
    BalanceLimit = 8
    FieldPrime = 19
    Fee = 1
    ANONYMITY_SET = 2
    NoAccount = nobody
    PubKey <- MCPubKey
    Hash253 <- MCHash253
    UTXOHash <- MCUTXOHash
    Compress <- MCCompress
    Accounts = {alice, dApp}
    this = dApp
    WAVES = waves
    Tokens = {token}
    InitFunds <- MCInitFunds
    Amounts = {1, 2, 3}
    TxFees = {1}
    Drafts = {}
SYMMETRY MCSymmetry
INVARIANTS
    ExactBacking
    OneNotePerNullifier
PROPERTIES
    ImplementsPool
CHECK_DEADLOCK FALSE
