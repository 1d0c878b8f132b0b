SPECIFICATION Spec
CONSTANTS
    Names = {x}
    Types = {"int"}
    RetType = "int"
    Forms <- AllForms
    MaxParams = 2
    MaxNodes = 4
INVARIANTS
    TypeOK
    LinksAreLexical
    RejectionsAreLexical
    StopsOnlyInKnownCases
    UndominatedOnlyUnbraced
CHECK_DEADLOCK FALSE
