SPECIFICATION Spec
CONSTANTS
    Replicas = {r1, r2}
    Replayers = {}
    NumWallets = 2
    Outside = Outside
    Batches <- TwoWallets
    TxPageSize = 1
    WalletPageSize = 1
    MAX_RETRIES = 1
    MaxLag = 0
    MaxTxs = 2
    MaxLedger = 2
    MaxFailures = 1
    MaxChanges = 1
SYMMETRY MCReplicas
INVARIANTS
    TypeOK
    CycleCovers
CHECK_DEADLOCK FALSE
