SPECIFICATION FairSpec
CONSTANTS
    Tabs = {t1, t2}
    Wallets = {w1, w2}
    Attempts = {a1, a2}
    MaxFaults = 1
    None = None
INVARIANTS
    TypeOK
    ChainFirst
PROPERTIES
    ForgottenWhenSettled
    SubmitEnds
CHECK_DEADLOCK FALSE
