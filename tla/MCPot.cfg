SPECIFICATION PotSpec
CONSTANTS
    k1 = k1
    k2 = k2
    e1 = e1
    e2 = e2
    e3 = e3
    alice = alice
    dApp = dApp
    waves = waves
    token = token
    nobody = nobody
    PrivKeys = {k1}
    Entropies = {e1, e2, e3}
    BalanceLimit = 8
    FieldPrime = 19
    Fee = 1
    ANONYMITY_SET = 2
    NoAccount = nobody
    PubKey <- MCPubKey
    Hash253 <- MCHash253
    UTXOHash <- MCUTXOHash
    Compress <- MCCompress
    Accounts = {alice, dApp}
    this = dApp
    WAVES = waves
    Tokens = {token}
    InitFunds <- MCInitFunds
    Amounts = {1, 2, 3}
    TxFees = {1, 2}
    Drafts <- MCDrafts
CHECK_DEADLOCK FALSE
SYMMETRY MCSymmetry
INVARIANTS
    TypeOK
    LogIsLedger
    NoDoubleSpend
    SpentWasCreated
    Solvency
    BalancesReadPositive
PROPERTIES
    AppendOnly
