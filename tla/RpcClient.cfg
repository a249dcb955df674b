SPECIFICATION FairSpec
CONSTANTS
    NumEndpoints = 2
    Checkers = {c1, c2}
    Submitters = {s1}
    Threshold = 2
    ResetTimeout = 1
    MaxWait = 2
    PollInterval = 1
    RpcTimeout = 1
    PollTime = 0
    MaxBackoff = 4
INVARIANTS
    WaitBounded
PROPERTIES
    LeftAlone
    Recovers
