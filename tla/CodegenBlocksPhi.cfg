SPECIFICATION Spec
CONSTANTS
    MaxNodes = 3
    FnType = "i1"
    Forms <- ControlForms
INVARIANTS
    PhiMatchesPreds
CHECK_DEADLOCK FALSE
