SPECIFICATION Spec
CONSTANTS
    Names = {x}
    Types = {"int"}
    RetType = "int"
    Forms <- ArrayUseForms
    MaxParams = 1
    MaxNodes = 3
INVARIANTS
    AllocasDominate
CHECK_DEADLOCK FALSE
