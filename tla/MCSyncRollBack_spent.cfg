SPECIFICATION RollSpec
CONSTANTS
    k1 = k1
    k2 = k2
    p1 = p1
    p2 = p2
    MaxDraws = 4
    alice = alice
    dApp = dApp
    waves = waves
    token = token
    nobody = nobody
    PrivKeys = {k1, k2}
    Entropies <- MCEntropies
    BalanceLimit = 8
    FieldPrime = 19
    Fee = 1
    ANONYMITY_SET = 1
    NoAccount = nobody
    PubKey <- MCPubKey
    Hash253 <- MCHash253
    UTXOHash <- MCUTXOHash
    Compress <- MCCompress
    Accounts = {alice, dApp}
    this = dApp
    WAVES = waves
    Tokens = {token}
    InitFunds <- MCInitFunds
    Amounts = {1, 3}
    TxFees = {1}
    Drafts = {}
    Procs = {p1}
    Seed <- MCOneSeed
    Sorted = FALSE
    MaxRollBacks = 1
INVARIANTS
    InUtxoIsNotSpent
CHECK_DEADLOCK FALSE
