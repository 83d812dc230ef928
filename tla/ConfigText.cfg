SPECIFICATION Spec
CONSTANTS
    MaxText = 6
    FPX_MAX_TAKES = 2
    MayFail = TRUE
INVARIANTS TypeOK DirectivesExact VerdictRight
CHECK_DEADLOCK FALSE
