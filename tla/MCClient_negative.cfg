SPECIFICATION ClientSpec
CONSTANTS
    k1 = k1
    k2 = k2
    p1 = p1
    MaxDraws = 18
    Money = 12
    alice = alice
    dApp = dApp
    waves = waves
    token = token
    nobody = nobody
    PrivKeys = {k1, k2}
    Entropies <- MCEntropies
    BalanceLimit = 24
    FieldPrime = 53
    Fee = 2
    ANONYMITY_SET = 2
    NoAccount = nobody
    PubKey <- MCPubKey
    Hash253 <- MCHash253
    UTXOHash <- MCUTXOHash
    Compress <- MCCompress
    Accounts = {alice, dApp}
    this = dApp
    WAVES = waves
    Tokens = {token}
    InitFunds <- MCInitFunds
    Amounts = {3, 6}
    TxFees = {2}
    Drafts = {}
    Procs = {p1}
    Seed <- MCSeed
    payer = alice
    Stranger = k2
    Requests <- MCRequests
    MaxOrphans = 1
    None = None
INVARIANTS
    NoNegativeOutput
