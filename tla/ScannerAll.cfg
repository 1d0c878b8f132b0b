SPECIFICATION Spec
CONSTANTS
    Files <- Kinds
    MaxInt = 11
    MaxFloat = 21
    MaxZeros = 2
INVARIANTS
    LongestLexemes
    TokensCoverTheSource
    PlacesAreTrue
    ThrowsOnlyOutOfRange
PROPERTIES
    Ends
CHECK_DEADLOCK FALSE
