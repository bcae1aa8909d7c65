SPECIFICATION Spec
CONSTANTS
    Requests = {r1, r2, r3}
    None = None
    MaxTokens = 4
    MaxEra = 2
    MaxAttempts = 2
CHECK_DEADLOCK FALSE
INVARIANTS
    TypeOK
    NoDeadlock
    OnlyOvertakenSurvive
SYMMETRY Symmetry
