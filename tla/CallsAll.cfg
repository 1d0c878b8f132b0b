SPECIFICATION Spec
CONSTANTS
    Programs <- All
    Bits = 4
    Exact = 4
INVARIANTS
    TypeOK
    MalformedOnlyMixed
    CallsMeanTheFirst
    FailsOnlyAtOwnFunctions
    ComputesTheMeaning
CHECK_DEADLOCK FALSE
