SPECIFICATION OwnerSpec
CONSTANTS
    Ids = {b1}
    Addresses = {g1}
    Hashes = {h1, h2}
    None = None
    Users = {u1}
    Clients = {c1, c2}
    KeyLimit = 1
    KeyDrop = 1
    Businesses = {x1}
    Wallets = {w1}
    NoWallet = NoWallet
    Anonymous = Anonymous
    MaxDisputes = 1
    MaxCalls = 2
    Accounts = {a1, a2}
    NoAddress = NoAddress
    PollInterval = 2
    ReadTime = 1
    MaxLedgers = 3
    MaxPerLedger = 2
    ExportSize = 2
    Limits = {1, 2}
    MaxOffset = 1
    Ranges = {d1, d2}
    MaxRequests = 2
    Ledgered = {v1}
    Callers = {f1}
    MaxChanges = 2
    MaxLoads = 2
INVARIANTS
    OwnerTypeOK
    InactiveOnChain
    OneSubmission
    PanelTruthful
    DetectedInTime
    ExportComplete
    PageSelected
    OwnCallSeen
CHECK_DEADLOCK FALSE
