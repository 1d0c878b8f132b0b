SPECIFICATION Spec
CONSTANTS
    MaxNodes = 3
    FnType = "i1"
    Forms <- AllForms
INVARIANTS
    TypeOK
    BlocksSealed
    VisitorsOwnTheirBlocks
    LayoutComplete
    LoopsAreNatural
    PhiExactIffAdjacent
    OverrunOnlyAfterReturn
    EveryBlockLives
PROPERTIES
    FrozenOnceClosed
    IllTypedOnlyThere
    ImplementsLifecycle
CHECK_DEADLOCK FALSE
