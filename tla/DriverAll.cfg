SPECIFICATION Spec
CONSTANTS
    Procs = {"p", "q"}
    Sources = {"a.in", "b.in"}
    Sessions <- All
INVARIANTS
    TypeOK
    Delivered
    NothingWrongGoesOut
    FilesAreWhole
    StatusIsTrue
PROPERTY
    EveryRunEnds
CHECK_DEADLOCK FALSE
