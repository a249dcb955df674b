SPECIFICATION FairSpec
CONSTANTS
    Replicas = {r1}
    Replayers = {}
    NumWallets = 2
    Outside = Outside
    Batches <- Transfers
    TxPageSize = 1
    WalletPageSize = 1
    MAX_RETRIES = 1
    MaxLag = 0
    MaxTxs = 2
    MaxLedger = 3
    MaxFailures = 2
    MaxChanges = 0
PROPERTIES
    Progress
CHECK_DEADLOCK FALSE
