SPECIFICATION Spec
CONSTANTS
    Sources <- Expressions
INVARIANTS
    ParenthesesGroup
CHECK_DEADLOCK FALSE
