SPECIFICATION Spec
CONSTANTS
    Replicas = {r1}
    Replayers = {}
    NumWallets = 1
    Outside = Outside
    Batches <- Payout
    TxPageSize = 1
    WalletPageSize = 1
    MAX_RETRIES = 1
    MaxLag = 0
    MaxTxs = 2
    MaxLedger = 2
    MaxFailures = 0
    MaxChanges = 0
INVARIANTS EveryPaymentIndexed
CHECK_DEADLOCK FALSE
