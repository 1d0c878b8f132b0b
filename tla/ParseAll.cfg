SPECIFICATION Spec
CONSTANTS
    Sources <- All
INVARIANTS
    TypeOK
    TreesFollowPrecedence
    StopsAtTheEnd
    ErrorsAtFirstBadToken
    TreesKeepTheSource
    KeepsCompleteFunctions
    ElseBindsNearest
    DumpShowsTheTree
CHECK_DEADLOCK FALSE
