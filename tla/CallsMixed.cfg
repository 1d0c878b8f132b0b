SPECIFICATION Spec
CONSTANTS
    Programs <- Mixed
    Bits = 4
    Exact = 4
INVARIANTS
    AllWellFormed
CHECK_DEADLOCK FALSE
