SPECIFICATION AttestationSpec
CONSTANTS
    AttestationIds = {t1}
    EventIds = {e1}
    Addresses = {g1, g2}
    None = None
    Methods = {get, valid}
    Ttl = 2
    LoadTime = 1
    MaxTime = 5
    Views = {v1, v2}
    MaxResyncs = 2
SYMMETRY AttestationSymmetry
INVARIANTS
    AttestationTypeOK
    BoundedStaleness
    OwnWritesSeen
    RowsOnChain
PROPERTIES
    ReadsInOrder
CHECK_DEADLOCK FALSE
