SPECIFICATION Spec
CONSTANTS
    Ids = {b1, b2, b3}
    Addresses = {a1, a2, a3}
    Hashes = {h1, h2}
    None = None
INVARIANTS
    IndexInv
PROPERTIES
    HistoryKept
    ImplementsClaims
CHECK_DEADLOCK FALSE
