SPECIFICATION Spec
CONSTANTS
    Replicas = {r1}
    Replayers = {p1, p2}
    NumWallets = 1
    Outside = Outside
    Batches <- OneWallet
    TxPageSize = 1
    WalletPageSize = 1
    MAX_RETRIES = 1
    MaxLag = 1
    MaxTxs = 1
    MaxLedger = 2
    MaxFailures = 4
    MaxChanges = 2
INVARIANTS ResolvedIsIndexed RetriesBounded
CHECK_DEADLOCK FALSE
