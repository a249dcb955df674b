SPECIFICATION ServicesSpec
CONSTANTS
    Tabs = {t1, t2}
    Events = {e1, e2}
    MaxClock = 2
    MaxPolls = 2
    MaxTimers = 1
    Keys = {u1}
    Requests = {q1, q2}
    WindowLength = 2
    MaxWrapped = 2
    MaxTier = 1
    MaxTime = 4
    Tokens = {k1}
    Readers = {p1, p2}
    MaxPanelCalls = 3
    Forms = {f1, f2}
    NumTypes = 2
    Choices = {on, off}
    Default = on
    Runners = {r1, r2, r3}
    Files = 3
SYMMETRY ServicesSymmetry
INVARIANTS
    ServicesTypeOK
    StreamComplete
    OneSource
    WindowBound
    RevokedIsRefused
    NoLockCycle
    MigratedInOrder
CHECK_DEADLOCK FALSE
