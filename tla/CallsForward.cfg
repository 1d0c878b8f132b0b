SPECIFICATION Spec
CONSTANTS
    Programs <- Forward
    Bits = 4
    Exact = 4
INVARIANTS
    FunctionsAreGenerated
CHECK_DEADLOCK FALSE
