SPECIFICATION Spec
CONSTANTS
    EventIds = {e1, e2, e3}
    BusinessIds = {b1, b2}
    Addresses = {a1, a2}
    Assets = {usdc}
    Amounts = {0, 1}
    PaymentTypes = {received}
    ContextTypes = {settled}
    MaxPageLimit = 2
    MaxSequence = 1
    None = None
SYMMETRY Symmetry
INVARIANTS
    ListsMatchEvents
    PagesTile
PROPERTIES
    ImplementsJournal
CHECK_DEADLOCK FALSE
