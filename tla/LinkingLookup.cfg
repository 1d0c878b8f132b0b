SPECIFICATION Spec
CONSTANTS
    Names = {x}
    Types = {"int"}
    RetType = "int"
    Forms <- ScopeForms
    MaxParams = 1
    MaxNodes = 4
INVARIANTS
    LookupsSucceed
CHECK_DEADLOCK FALSE
